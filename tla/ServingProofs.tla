---------------------------- MODULE ServingProofs ---------------------------
(***************************************************************************)
(* Proofs about the serving side (Serving.tla), for any deployments, names *)
(* and requests: what the accounts promise; for any number of connections  *)
(* and threads: what drain() promises to a client that waits for its       *)
(* response; and for any callers, rates, rules and readings of the clock:  *)
(* what the rate limiter grants, what the windows and the traffic counter  *)
(* hold and sum up to, and how far apart the alerts are.                   *)
(***************************************************************************)
EXTENDS Serving, FiniteSetTheorems, WellFoundedInduction, TLAPS

(***************************************************************************)
(* The accounts.                                                           *)
(***************************************************************************)
AccountsPart ==
    /\ AuthTypeOK
    /\ acked \subseteq Names
    /\ TokensHaveAccounts
    /\ AccountsKept
    /\ governed \in BOOLEAN
    /\ StaysGoverned
    /\ ~governed => Admins(usersFile) = {}

(* Nobody is deleted and no administrator becomes a user. *)
Grows ==
    \A n \in Names : /\ users[n] # Absent => users'[n] # Absent
                     /\ users[n].role = "admin" => users'[n].role = "admin"

(* The file is what it was or what is in memory. *)
Filed == usersFile' = usersFile \/ usersFile' = users'

AckedNow == \A n \in acked' \ acked : n \in Names /\ users'[n] # Absent /\ usersFile'[n] # Absent

LEMMA GovernedKeeps ==
    ASSUME AccountsPart, Filed, Governed, Admins(users) # {} => Admins(users') # {}
    PROVE  governed' \in BOOLEAN /\ StaysGoverned' /\ (~governed' => Admins(usersFile') = {})
<1>1. governed' \in BOOLEAN /\ (~governed' => Admins(usersFile') = {})
  BY DEF Governed
<1>2. StaysGoverned'
  <2>1. CASE governed
    <3>1. Admins(users) # {} /\ Admins(usersFile) # {}
      BY <2>1 DEF AccountsPart, StaysGoverned, HasAdmin
    <3>2. CASE usersFile' = usersFile
      BY <3>1, <3>2 DEF StaysGoverned, HasAdmin
    <3>3. CASE usersFile' = users'
      BY <3>1, <3>3 DEF StaysGoverned, HasAdmin
    <3> QED
      BY <3>2, <3>3 DEF Filed
  <2>2. CASE ~governed
    <3>1. Admins(usersFile) = {}
      BY <2>2 DEF AccountsPart
    <3>2. CASE usersFile' = usersFile
      BY <2>2, <3>1, <3>2 DEF Governed, StaysGoverned
    <3>3. CASE usersFile' = users'
      BY <2>2, <3>3 DEF Governed, StaysGoverned, HasAdmin
    <3> QED
      BY <3>2, <3>3 DEF Filed
  <2> QED
    BY <2>1, <2>2 DEF AccountsPart
<1> QED
  BY <1>1, <1>2

(* Adding and moving accounts keeps the promises. *)
LEMMA GrowthKeeps ==
    ASSUME AccountsPart, AuthTypeOK', Grows, Filed, AckedNow, Governed,
           tokens' = tokens
    PROVE  AccountsPart'
<1>1. TokensHaveAccounts'
  BY DEF AccountsPart, TokensHaveAccounts, Grows
<1>2. acked' \subseteq Names /\ AccountsKept'
  BY DEF AccountsPart, AccountsKept, Grows, Filed, AckedNow
<1>3. Admins(users) # {} => Admins(users') # {}
  BY DEF Admins, Grows
<1> QED
  BY <1>1, <1>2, <1>3, GovernedKeeps DEF AccountsPart

LEMMA RegisterGrows ==
    ASSUME AuthTypeOK, NEW n \in Names, NEW role \in {"admin", "user"},
           NEW domain \in Domains, NEW ok \in BOOLEAN,
           RegisterUser(n, role, domain, ok)
    PROVE  /\ AuthTypeOK' /\ Grows /\ Filed /\ tokens' = tokens
           /\ ok => users'[n] # Absent /\ usersFile'[n] # Absent
           /\ users' # users => users'[n].role = role
<1> DEFINE a == Account(role, domain)
<1>1. a \in Accounts /\ a # Absent /\ a.role = role
  <2>1. a \in Accounts /\ a.role = role
    BY DEF Accounts, Account
  <2>2. Absent \notin Accounts
    BY AccountsAssumption
  <2>. QED  BY <2>1, <2>2
<1> HIDE DEF a
<1>2. CASE users[n] = Absent /\ Save([users EXCEPT ![n] = a], ok)
  <2>1. users' = [users EXCEPT ![n] = a] /\ tokens' = tokens
    BY <1>2 DEF Save, RegisterUser
  <2>2. usersFile' = IF ok THEN users' ELSE usersFile
    BY <1>2, <2>1 DEF Save
  <2>3. AuthTypeOK'
    BY <1>1, <2>1, <2>2 DEF AuthTypeOK
  <2>4. users[n] = Absent /\ Absent.role # "admin"
    BY <1>2 DEF Absent
  <2>5. \A m \in Names : users'[m] = IF m = n THEN a ELSE users[m]
    BY <2>1 DEF AuthTypeOK
  <2>6. Grows
    BY <1>1, <2>4, <2>5 DEF Grows
  <2> QED
    BY <1>1, <2>1, <2>2, <2>3, <2>5, <2>6 DEF Filed
<1>3. CASE ~ok /\ UNCHANGED <<users, usersFile>>
  BY <1>3 DEF RegisterUser, AuthTypeOK, Grows, Filed
<1> QED
  BY <1>2, <1>3 DEF RegisterUser, a

LEMMA SetDomainGrows ==
    ASSUME AuthTypeOK, NEW n \in Names, NEW domain \in Domains, NEW ok \in BOOLEAN,
           SetDomain(n, domain, ok)
    PROVE  AuthTypeOK' /\ Grows /\ Filed /\ tokens' = tokens
<1>1. CASE users[n] # Absent /\ Save([users EXCEPT ![n].domain = domain], ok)
  <2> DEFINE a == [users[n] EXCEPT !.domain = domain]
  <2>1. a \in Accounts /\ a.role = users[n].role
    BY <1>1 DEF AuthTypeOK, Accounts
  <2>2. a # Absent
    BY <2>1, AccountsAssumption
  <2>3. users' = [users EXCEPT ![n] = a] /\ tokens' = tokens
    BY <1>1 DEF Save, SetDomain, AuthTypeOK
  <2>4. usersFile' = IF ok THEN users' ELSE usersFile
    BY <1>1 DEF Save
  <2> HIDE DEF a
  <2>5. AuthTypeOK'
    BY <2>1, <2>3, <2>4 DEF AuthTypeOK
  <2>6. Grows
    BY <2>1, <2>2, <2>3 DEF Grows, AuthTypeOK
  <2> QED
    BY <2>3, <2>4, <2>5, <2>6 DEF Filed
<1>2. CASE users[n] = Absent /\ ~ok /\ UNCHANGED <<users, usersFile>>
  BY <1>2 DEF SetDomain, AuthTypeOK, Grows, Filed
<1> QED
  BY <1>1, <1>2 DEF SetDomain

(* Deleting one keeps an administrator and the promises to the others. *)
LEMMA DeleteKeeps ==
    ASSUME AccountsPart, NEW n \in Names, NEW ok \in BOOLEAN, DeleteUser(n, ok),
           acked' = IF users' = users THEN acked ELSE acked \ {n},
           Governed
    PROVE  AccountsPart'
<1>1. CASE MayGo(n) /\ Save([users EXCEPT ![n] = Absent], ok) /\ RevokeAll(n)
  <2>1. users' = [users EXCEPT ![n] = Absent]
    BY <1>1 DEF Save
  <2>2. usersFile' = IF ok THEN users' ELSE usersFile
    BY <1>1, <2>1 DEF Save
  <2>3. \A m \in Names : users'[m] = IF m = n THEN Absent ELSE users[m]
    BY <2>1 DEF AccountsPart, AuthTypeOK
  <2>4. users[n] # Absent /\ Admins(users) # {n}
    BY <1>1 DEF MayGo
  <2>5. tokens' = [t \in Tokens |-> IF tokens[t] = n THEN Revoked ELSE tokens[t]]
    BY <1>1 DEF RevokeAll
  <2>6. AuthTypeOK'
    <3>1. users' \in [Names -> Accounts \cup {Absent}]
      BY <2>1 DEF AccountsPart, AuthTypeOK
    <3>2. usersFile' \in [Names -> Accounts \cup {Absent}]
      BY <3>1, <2>2 DEF AccountsPart, AuthTypeOK
    <3>3. tokens' \in [Tokens -> Names \cup {Unissued, Revoked}]
      BY <2>5 DEF AccountsPart, AuthTypeOK
    <3> QED
      BY <3>1, <3>2, <3>3 DEF AuthTypeOK
  <2>7. TokensHaveAccounts'
    BY <2>3, <2>5, AccountsAssumption DEF AccountsPart, TokensHaveAccounts
  <2>8. acked' = acked \ {n}
    BY <2>3, <2>4
  <2>9. acked' \subseteq Names /\ AccountsKept'
    BY <2>2, <2>3, <2>8 DEF AccountsPart, AccountsKept
  <2>10. Admins(users) # {} => Admins(users') # {}
    BY <2>3, <2>4 DEF Admins
  <2>11. Filed
    BY <2>2 DEF Filed
  <2> QED
    BY <2>6, <2>7, <2>9, <2>10, <2>11, GovernedKeeps DEF AccountsPart
<1>2. CASE UNCHANGED auth
  <2>1. users' = users /\ usersFile' = usersFile /\ tokens' = tokens /\ acked' = acked
    BY <1>2 DEF auth
  <2>2. governed' \in BOOLEAN /\ StaysGoverned' /\ (~governed' => Admins(usersFile') = {})
    BY <2>1, GovernedKeeps DEF Filed
  <2> QED
    BY <2>1, <2>2 DEF AccountsPart, AuthTypeOK, TokensHaveAccounts, AccountsKept
<1> QED
  BY <1>1, <1>2 DEF DeleteUser

(* Issuing and revoking tokens. *)
LEMMA TokenKeeps ==
    ASSUME AccountsPart, users' = users, usersFile' = usersFile,
           UNCHANGED <<acked, governed>>,
           tokens' \in [Tokens -> Names \cup {Unissued, Revoked}],
           \A t \in Tokens : tokens'[t] \in Names /\ tokens'[t] # tokens[t] =>
                                users[tokens'[t]] # Absent
    PROVE  AccountsPart'
<1>1. AuthTypeOK'
  BY DEF AccountsPart, AuthTypeOK
<1>2. TokensHaveAccounts'
  BY DEF AccountsPart, TokensHaveAccounts
<1>3. AccountsKept' /\ StaysGoverned' /\ (~governed' => Admins(usersFile') = {})
  BY DEF AccountsPart, AccountsKept, StaysGoverned, HasAdmin
<1> QED
  BY <1>1, <1>2, <1>3 DEF AccountsPart

LEMMA LoginKeeps ==
    ASSUME AccountsPart, NEW n \in Names, NEW t \in Tokens, NEW ok \in BOOLEAN,
           Login(n, t, ok), UNCHANGED <<acked, governed>>
    PROVE  AccountsPart'
<1>1. CASE UNCHANGED auth
  BY <1>1, TokenKeeps DEF auth, AccountsPart, AuthTypeOK
<1>2. CASE ~UNCHANGED auth
  <2>1. /\ tokens' = [tokens EXCEPT ![t] = n] /\ users[n] # Absent
        /\ users' = users /\ usersFile' = usersFile
    BY <1>2 DEF Login
  <2>2. tokens' \in [Tokens -> Names \cup {Unissued, Revoked}]
    BY <2>1 DEF AccountsPart, AuthTypeOK
  <2>3. \A x \in Tokens : tokens'[x] = IF x = t THEN n ELSE tokens[x]
    BY <2>1 DEF AccountsPart, AuthTypeOK
  <2> QED
    BY <2>1, <2>2, <2>3, TokenKeeps
<1> QED
  BY <1>1, <1>2

LEMMA LogoutKeeps ==
    ASSUME AccountsPart, NEW t \in Tokens, Logout(t), UNCHANGED <<acked, governed>>
    PROVE  AccountsPart'
<1>1. /\ tokens' = [tokens EXCEPT ![t] = Revoked]
      /\ users' = users /\ usersFile' = usersFile
  BY DEF Logout
<1>2. tokens' \in [Tokens -> Names \cup {Unissued, Revoked}]
  BY <1>1 DEF AccountsPart, AuthTypeOK
<1>3. \A x \in Tokens : tokens'[x] = IF x = t THEN Revoked ELSE tokens[x]
  BY <1>1 DEF AccountsPart, AuthTypeOK
<1> QED
  BY <1>1, <1>2, <1>3, TokenKeeps, AccountsAssumption

LEMMA EnsureGrows ==
    ASSUME AuthTypeOK, NEW n \in Names, NEW ok \in BOOLEAN, EnsureAdmin(n, ok)
    PROVE  /\ AuthTypeOK' /\ Grows /\ Filed /\ tokens' = tokens
           /\ \A m \in Names : users'[m].role = "admin" /\ users[m].role # "admin" => m = n
<1>1. CASE users[n].role = "user" /\ Save([users EXCEPT ![n].role = "admin"], ok) /\ UNCHANGED tokens
  <2> DEFINE a == [users[n] EXCEPT !.role = "admin"]
  <2>1. users[n] \in Accounts
    <3>1. users[n].role = "user"
      BY <1>1
    <3>2. Absent.role # "user"
      BY DEF Absent
    <3>3. users[n] # Absent
      BY <3>1, <3>2
    <3> QED
      BY <3>3 DEF AuthTypeOK
  <2>2. a \in Accounts /\ a.role = "admin"
    BY <2>1 DEF Accounts
  <2>3. a # Absent
    BY <2>2, AccountsAssumption
  <2>4. users' = [users EXCEPT ![n] = a] /\ tokens' = tokens
    BY <1>1 DEF Save, AuthTypeOK
  <2>5. usersFile' = IF ok THEN users' ELSE usersFile
    BY <1>1 DEF Save
  <2> HIDE DEF a
  <2>6. AuthTypeOK'
    BY <2>2, <2>4, <2>5 DEF AuthTypeOK
  <2>7. \A m \in Names : users'[m] = IF m = n THEN a ELSE users[m]
    BY <2>4 DEF AuthTypeOK
  <2>8. Grows
    BY <2>2, <2>3, <2>7 DEF Grows
  <2> QED
    BY <2>4, <2>5, <2>6, <2>7, <2>8 DEF Filed
<1>2. CASE UNCHANGED auth
  BY <1>2 DEF auth, AuthTypeOK, Grows, Filed
<1>3. CASE users[n] = Absent /\ RegisterUser(n, "admin", DefaultDomain, ok)
  <2>1. AuthTypeOK' /\ Grows /\ Filed /\ tokens' = tokens
    BY <1>3, RegisterGrows, AccountsAssumption
  <2>2. \A m \in Names \ {n} : users'[m] = users[m]
    BY <1>3 DEF RegisterUser, Save, AuthTypeOK
  <2> QED
    BY <2>1, <2>2
<1> QED
  BY <1>1, <1>2, <1>3 DEF EnsureAdmin

LEMMA LoadKeeps ==
    ASSUME AccountsPart, Load, UNCHANGED <<acked, governed>>
    PROVE  AccountsPart'
<1>1. users' = usersFile /\ usersFile' = usersFile
  BY DEF Load
<1>2. AuthTypeOK'
  BY <1>1, AccountsAssumption DEF Load, AccountsPart, AuthTypeOK
<1>3. \A t \in Tokens : tokens'[t] \notin Names
  BY AccountsAssumption DEF Load
<1>4. TokensHaveAccounts' /\ AccountsKept' /\ StaysGoverned'
  BY <1>1, <1>3 DEF AccountsPart, TokensHaveAccounts, AccountsKept, StaysGoverned, HasAdmin
<1> QED
  BY <1>1, <1>2, <1>4 DEF AccountsPart

(***************************************************************************)
(* Where the requests are.                                                 *)
(***************************************************************************)
CallFits(c, ask) ==
    /\ c.at = "info" => c.user \in Names
    /\ c.domain \in Domains \/ c.at \in {"new", "done", "check", "info"}
                            \/ ask.op \in {"register", "login"}
    /\ c.flag => c.at \in {"create", "addDomain", "nameOwner", "rollBack"}

Met == \A r, q \in Requests : r # q /\ InProgress(r) /\ InProgress(q) => {r, q} \in met

CallsPart ==
    /\ deployment \in Deployments
    /\ up \in BOOLEAN /\ (up \/ AtRest)
    /\ call \in [Requests -> Calls]
    /\ req \in [Requests -> Asks]
    /\ \A r \in Requests : CallFits(call[r], req[r])
    /\ Met

(* Request r, which is in progress, goes on; it sets out to create an      *)
(* administrator only when there is none.                                  *)
Moves(r) ==
    /\ InProgress(r)
    /\ \E c \in Calls :
         /\ call' = [call EXCEPT ![r] = c]
         /\ CallFits(c, req[r])
         /\ c.at = "create" /\ c.flag => ~HasAdmin

LEMMA MovesKeep ==
    ASSUME CallsPart, NEW r \in Requests, Moves(r), UNCHANGED <<deployment, up, req, met>>
    PROVE  CallsPart'
<1>1. PICK c \in Calls : call' = [call EXCEPT ![r] = c] /\ CallFits(c, req[r])
  BY DEF Moves
<1>2. \A q \in Requests : call'[q] = IF q = r THEN c ELSE call[q]
  BY <1>1 DEF CallsPart
<1>3. call' \in [Requests -> Calls]
  BY <1>1 DEF CallsPart
<1>4. \A q \in Requests : InProgress(q)' => InProgress(q)
  BY <1>2 DEF Moves, InProgress
<1>5. Met'
  BY <1>4 DEF CallsPart, Met
<1>6. up
  BY DEF CallsPart, AtRest, Moves
<1>7. \A q \in Requests : CallFits(call'[q], req[q])
  BY <1>1, <1>2 DEF CallsPart
<1>8. \A q \in Requests : CallFits(call[q], req[q])'
  BY <1>7 DEF CallFits
<1> QED
  BY <1>3, <1>5, <1>6, <1>8 DEF CallsPart

LEMMA IdleCall == [Idle EXCEPT !.at = "done"] \in Calls /\ Idle \in Calls
<1>1. {} \in SUBSET Ids /\ {} \in SUBSET Names /\ Seed \in Requests \cup {Seed}
  OBVIOUS
<1>2. "new" \in Stages /\ "done" \in Stages
  BY DEF Stages
<1>3. Idle \in Calls
  BY <1>1, <1>2 DEF Idle, Calls
<1>4. [Idle EXCEPT !.at = "done"] \in Calls
  BY <1>1, <1>2 DEF Idle, Calls
<1> QED
  BY <1>3, <1>4

LEMMA AnswerMoves ==
    ASSUME NEW r \in Requests, InProgress(r), Answer(r)
    PROVE  Moves(r)
<1> DEFINE c == [Idle EXCEPT !.at = "done"]
<1>1. c \in Calls /\ c.at = "done" /\ ~c.flag
  BY IdleCall DEF Idle
<1>2. call' = [call EXCEPT ![r] = c]
  BY DEF Answer
<1> HIDE DEF c
<1> QED
  BY <1>1, <1>2 DEF Moves, CallFits

LEMMA GotoMoves ==
    ASSUME CallsPart, NEW r \in Requests, InProgress(r), NEW at \in Stages, Goto(r, at),
           call[r].at \notin {"check", "info"}, at # "info",
           call[r].flag => at \in {"addDomain", "nameOwner", "rollBack"}
    PROVE  Moves(r)
<1> DEFINE c == [call[r] EXCEPT !.at = at]
<1>1. call[r] \in Calls /\ CallFits(call[r], req[r])
  BY DEF CallsPart
<1>2. c \in Calls /\ c.at = at /\ c.flag = call[r].flag /\ c.domain = call[r].domain
  BY <1>1 DEF Calls
<1>3. call' = [call EXCEPT ![r] = c]
  BY DEF Goto, CallsPart
<1> HIDE DEF c
<1>4. CallFits(c, req[r])
  BY <1>1, <1>2 DEF CallFits, InProgress
<1> QED
  BY <1>2, <1>3, <1>4 DEF Moves

(* A loop has one thing less to visit. *)
LEMMA VisitMoves ==
    ASSUME CallsPart, NEW r \in Requests, InProgress(r), call[r].at # "create",
           \/ \E i \in Ids : call' = [call EXCEPT ![r].left = @ \ {i}]
           \/ \E n \in Names : call' = [call EXCEPT ![r].move = @ \ {n}]
    PROVE  Moves(r)
<1>1. call[r] \in Calls /\ CallFits(call[r], req[r])
  BY DEF CallsPart
<1>2. PICK c \in Calls : /\ call' = [call EXCEPT ![r] = c]
                         /\ c.at = call[r].at /\ c.user = call[r].user
                         /\ c.domain = call[r].domain /\ c.flag = call[r].flag
  <2>1. CASE \E i \in Ids : call' = [call EXCEPT ![r].left = @ \ {i}]
    <3>1. PICK i \in Ids : call' = [call EXCEPT ![r].left = @ \ {i}]
      BY <2>1
    <3> DEFINE d == [call[r] EXCEPT !.left = @ \ {i}]
    <3>2. d \in Calls /\ d.at = call[r].at /\ d.user = call[r].user
          /\ d.domain = call[r].domain /\ d.flag = call[r].flag
      BY <1>1 DEF Calls
    <3>3. call' = [call EXCEPT ![r] = d]
      BY <3>1 DEF CallsPart
    <3> HIDE DEF d
    <3> QED
      BY <3>2, <3>3
  <2>2. CASE \E n \in Names : call' = [call EXCEPT ![r].move = @ \ {n}]
    <3>1. PICK n \in Names : call' = [call EXCEPT ![r].move = @ \ {n}]
      BY <2>2
    <3> DEFINE d == [call[r] EXCEPT !.move = @ \ {n}]
    <3>2. d \in Calls /\ d.at = call[r].at /\ d.user = call[r].user
          /\ d.domain = call[r].domain /\ d.flag = call[r].flag
      BY <1>1 DEF Calls
    <3>3. call' = [call EXCEPT ![r] = d]
      BY <3>1 DEF CallsPart
    <3> HIDE DEF d
    <3> QED
      BY <3>2, <3>3
  <2> QED
    BY <2>1, <2>2
<1>3. CallFits(c, req[r])
  BY <1>1, <1>2 DEF CallFits
<1> QED
  BY <1>2, <1>3 DEF Moves

LEMMA InfoTyped ==
    ASSUME AuthTypeOK, NEW n \in Names
    PROVE  /\ users[n].role \in {"", "user", "admin"}
           /\ users[n].domain \in Domains \cup {""}
<1>1. CASE users[n] = Absent
  <2>1. Absent.role = "" /\ Absent.domain = ""
    BY DEF Absent
  <2> QED
    BY <1>1, <2>1
<1>2. CASE users[n] \in Accounts
  BY <1>2 DEF Accounts
<1> QED
  BY <1>1, <1>2 DEF AuthTypeOK

LEMMA CheckMoves ==
    ASSUME AuthTypeOK, CallsPart, NEW r \in Requests, Check(r)
    PROVE  Moves(r)
<1>1. call[r] \in Calls /\ CallFits(call[r], req[r]) /\ call[r].at = "check"
  BY DEF Check, CallsPart
<1>2. InProgress(r) /\ ~call[r].flag
  BY <1>1 DEF InProgress, CallFits
<1>3. CASE Answer(r)
  BY <1>2, <1>3, AnswerMoves
<1>4. CASE ~Answer(r)
  <2> DEFINE user == tokens[req[r].token]
             d == [call[r] EXCEPT !.at = "info", !.user = user, !.home = users[user].domain]
  <2>1. user \in Names
    BY <1>4 DEF Check
  <2>2. "info" \in Stages
    BY DEF Stages
  <2>3. users[user].domain \in Domains \cup {""}
    BY <2>1, InfoTyped
  <2>4. d \in Calls /\ d.at = "info" /\ d.user = user /\ d.flag = call[r].flag
    BY <1>1, <2>1, <2>2, <2>3 DEF Calls
  <2>5. call' = [call EXCEPT ![r] = d]
    BY <1>4 DEF Check, CallsPart
  <2> HIDE DEF d
  <2>6. CallFits(d, req[r])
    BY <1>2, <2>1, <2>4 DEF CallFits
  <2> QED
    BY <1>2, <2>4, <2>5, <2>6 DEF Moves
<1> QED
  BY <1>3, <1>4

LEMMA HandlerTyped ==
    ASSUME NEW op \in Ops
    PROVE  Handler(op) \in Stages \ {"new", "done", "check", "info", "create"}
BY DEF Handler, Ops, AdminOps, Stages

LEMMA InfoMoves ==
    ASSUME AuthTypeOK, CallsPart, NEW r \in Requests, Info(r)
    PROVE  Moves(r)
<1>1. call[r] \in Calls /\ CallFits(call[r], req[r]) /\ call[r].at = "info"
  BY DEF Info, CallsPart
<1>2. InProgress(r) /\ ~call[r].flag /\ call[r].user \in Names
  BY <1>1 DEF InProgress, CallFits
<1>3. CASE Answer(r)
  BY <1>2, <1>3, AnswerMoves
<1>4. CASE ~Answer(r)
  <2> DEFINE info == users[call[r].user]
             domain == IF info.domain = "" THEN DefaultDomain ELSE info.domain
             at == Handler(req[r].op)
             d == [call[r] EXCEPT !.role = info.role, !.domain = domain,
                                  !.left = req[r].ids, !.at = at]
  <2>1. req[r].op \in Ops /\ req[r].ids \in SUBSET Ids
    BY DEF CallsPart, Asks
  <2>2. at \in Stages /\ at \notin {"new", "done", "check", "info", "create"}
    BY <2>1, HandlerTyped
  <2>3. info.role \in {"", "user", "admin"} /\ domain \in Domains
    BY <1>2, InfoTyped, AccountsAssumption
  <2>4. call' = [call EXCEPT ![r] = d]
    BY <1>4 DEF Info, Caller
  <2> HIDE DEF info, domain, at
  <2>5. d \in Calls /\ d.at = at /\ d.domain = domain /\ d.flag = call[r].flag
    BY <1>1, <2>1, <2>2, <2>3 DEF Calls
  <2> HIDE DEF d
  <2>6. CallFits(d, req[r])
    BY <1>2, <2>2, <2>3, <2>5 DEF CallFits
  <2> QED
    BY <1>2, <2>4, <2>5, <2>6 DEF Moves
<1> QED
  BY <1>3, <1>4

(* A step that also sets the flag. *)
LEMMA FlagMoves ==
    ASSUME CallsPart, NEW r \in Requests, InProgress(r), NEW at \in Stages, NEW b \in BOOLEAN,
           call' = [call EXCEPT ![r].at = at, ![r].flag = b],
           call[r].at \notin {"check", "info"},
           at \in {"create", "addDomain"}, at = "create" /\ b => ~HasAdmin
    PROVE  Moves(r)
<1> DEFINE d == [call[r] EXCEPT !.at = at, !.flag = b]
<1>1. call[r] \in Calls /\ CallFits(call[r], req[r])
  BY DEF CallsPart
<1>2. d \in Calls /\ d.at = at /\ d.flag = b /\ d.domain = call[r].domain
  BY <1>1 DEF Calls
<1>3. call' = [call EXCEPT ![r] = d]
  BY DEF CallsPart
<1> HIDE DEF d
<1>4. CallFits(d, req[r])
  BY <1>1, <1>2 DEF CallFits, InProgress
<1> QED
  BY <1>2, <1>3, <1>4 DEF Moves

(* Steps that begin a loop or remember the session that was made. *)
LEMMA ListMoves ==
    ASSUME CallsPart, NEW r \in Requests, NEW at \in Stages,
           call[r].at \in {"domainsDelete", "listUsers", "addSession"},
           at \in {"evict", "moveUsers", "start"},
           \/ \E ids \in SUBSET Ids : call' = [call EXCEPT ![r].at = at, ![r].left = ids]
           \/ \E ns \in SUBSET Names : call' = [call EXCEPT ![r].at = at, ![r].move = ns]
           \/ \E i \in Ids : call' = [call EXCEPT ![r].at = at, ![r].made = i]
    PROVE  Moves(r)
<1>1. call[r] \in Calls /\ CallFits(call[r], req[r])
  BY DEF CallsPart
<1>2. InProgress(r) /\ ~call[r].flag
  BY <1>1 DEF CallFits, InProgress
<1>3. PICK d \in Calls : /\ call' = [call EXCEPT ![r] = d]
                         /\ d.at = at /\ d.domain = call[r].domain /\ d.flag = call[r].flag
  <2>1. CASE \E ids \in SUBSET Ids : call' = [call EXCEPT ![r].at = at, ![r].left = ids]
    <3>1. PICK ids \in SUBSET Ids : call' = [call EXCEPT ![r].at = at, ![r].left = ids]
      BY <2>1
    <3> DEFINE d == [call[r] EXCEPT !.at = at, !.left = ids]
    <3>2. d \in Calls /\ d.at = at /\ d.domain = call[r].domain /\ d.flag = call[r].flag
      BY <1>1 DEF Calls
    <3>3. call' = [call EXCEPT ![r] = d]
      BY <3>1 DEF CallsPart
    <3> HIDE DEF d
    <3> QED
      BY <3>2, <3>3
  <2>2. CASE \E ns \in SUBSET Names : call' = [call EXCEPT ![r].at = at, ![r].move = ns]
    <3>1. PICK ns \in SUBSET Names : call' = [call EXCEPT ![r].at = at, ![r].move = ns]
      BY <2>2
    <3> DEFINE d == [call[r] EXCEPT !.at = at, !.move = ns]
    <3>2. d \in Calls /\ d.at = at /\ d.domain = call[r].domain /\ d.flag = call[r].flag
      BY <1>1 DEF Calls
    <3>3. call' = [call EXCEPT ![r] = d]
      BY <3>1 DEF CallsPart
    <3> HIDE DEF d
    <3> QED
      BY <3>2, <3>3
  <2>3. CASE \E i \in Ids : call' = [call EXCEPT ![r].at = at, ![r].made = i]
    <3>1. PICK i \in Ids : call' = [call EXCEPT ![r].at = at, ![r].made = i]
      BY <2>3
    <3> DEFINE d == [call[r] EXCEPT !.at = at, !.made = i]
    <3>2. d \in Calls /\ d.at = at /\ d.domain = call[r].domain /\ d.flag = call[r].flag
      BY <1>1 DEF Calls
    <3>3. call' = [call EXCEPT ![r] = d]
      BY <3>1 DEF CallsPart
    <3> HIDE DEF d
    <3> QED
      BY <3>2, <3>3
  <2> QED
    BY <2>1, <2>2, <2>3
<1>4. CallFits(d, req[r])
  BY <1>1, <1>2, <1>3 DEF CallFits, InProgress
<1> QED
  BY <1>2, <1>3, <1>4 DEF Moves

(* A handler that has set no flag goes on. *)
LEMMA PlainMoves ==
    ASSUME CallsPart, NEW r \in Requests, NEW at \in Stages,
           call[r].at \notin {"new", "done", "check", "info", "create", "addDomain",
                              "nameOwner", "rollBack"},
           at # "info", Goto(r, at)
    PROVE  Moves(r)
BY GotoMoves DEF CallsPart, CallFits, InProgress

SessionIds == \A s \in sessions : s.id \in Ids

LEMMA HandleMoves ==
    ASSUME AuthTypeOK, CallsPart, SessionIds, NEW r \in Requests, Handle(r)
    PROVE  Moves(r)
<1>1. ASSUME Answer(r), InProgress(r) PROVE Moves(r)
  BY <1>1, AnswerMoves
<1>2. call[r] \in Calls
  BY DEF CallsPart
<1>3. CASE Check(r)
  BY <1>3, CheckMoves
<1>4. CASE Info(r)
  BY <1>4, InfoMoves
<1>5. CASE AskBootstrap(r)
  <2>1. InProgress(r) /\ call[r].at = "register" /\ "create" \in Stages
    BY <1>5 DEF AskBootstrap, InProgress, Stages
  <2>2. Answer(r) \/ call' = [call EXCEPT ![r].at = "create", ![r].flag = ~HasAdmin]
    BY <1>5 DEF AskBootstrap
  <2>3. CASE call' = [call EXCEPT ![r].at = "create", ![r].flag = ~HasAdmin]
    <3> DEFINE b == ~HasAdmin
    <3>1. call' = [call EXCEPT ![r].at = "create", ![r].flag = b] /\ b \in BOOLEAN
      BY <2>3
    <3>2. b => ~HasAdmin
      OBVIOUS
    <3> HIDE DEF b
    <3> QED
      BY <2>1, <3>1, <3>2, FlagMoves
  <2> QED
    BY <1>1, <2>1, <2>2, <2>3
<1>6. CASE CreateUser(r) \/ LogIn(r) \/ LogOut(r) \/ Delete(r) \/ RollBack(r)
          \/ AddPcap(r) \/ RemovePcap(r) \/ Start(r) \/ StoreRemove(r) \/ WriteNotes(r)
  BY <1>1, <1>6 DEF CreateUser, LogIn, LogOut, Delete, RollBack, AddPcap, RemovePcap,
                    Start, StoreRemove, WriteNotes, InProgress
<1>7. CASE UserDomain(r) \/ OwnerOnly(r) \/ Victim(r) \/ SpareOwner(r)
  <2>1. /\ call[r].at \in {"adminUsersPost", "owner", "victim", "spare"}
        /\ Answer(r) \/ \E at \in {"create", "victim", "spare", "delete"} : Goto(r, at)
    BY <1>7 DEF UserDomain, OwnerOnly, Victim, SpareOwner
  <2>2. InProgress(r)
    BY <2>1 DEF InProgress
  <2>3. ASSUME NEW at \in {"create", "victim", "spare", "delete"}, Goto(r, at)
        PROVE  Moves(r)
    BY <2>1, <2>3, PlainMoves DEF Stages
  <2> QED
    BY <1>1, <2>1, <2>2, <2>3
<1>8. CASE AskOwner(r)
  <2>1. InProgress(r) /\ call[r].at = "domainsPost" /\ "addDomain" \in Stages
    BY <1>8 DEF AskOwner, InProgress, Stages
  <2> DEFINE exists == users[req[r].name] # Absent
  <2>2. exists \in BOOLEAN
    OBVIOUS
  <2>3. Answer(r) \/ call' = [call EXCEPT ![r].at = "addDomain", ![r].flag = exists]
    BY <1>8 DEF AskOwner
  <2> HIDE DEF exists
  <2>4. CASE call' = [call EXCEPT ![r].at = "addDomain", ![r].flag = exists]
    BY <2>1, <2>2, <2>4, FlagMoves
  <2> QED
    BY <1>1, <2>1, <2>3, <2>4
<1>9. CASE AddDomain(r)
  <2>1. InProgress(r) /\ call[r].at = "addDomain" /\ "nameOwner" \in Stages
    BY <1>9 DEF AddDomain, InProgress, Stages
  <2>2. Answer(r) \/ Goto(r, "nameOwner")
    BY <1>9 DEF AddDomain
  <2> QED
    BY <1>1, <2>1, <2>2, GotoMoves
<1>10. CASE NameOwner(r)
  <2>1. InProgress(r) /\ call[r].at = "nameOwner" /\ "rollBack" \in Stages
    BY <1>10 DEF NameOwner, InProgress, Stages
  <2>2. Answer(r) \/ Goto(r, "rollBack")
    BY <1>10 DEF NameOwner
  <2> QED
    BY <1>1, <2>1, <2>2, GotoMoves
<1>11. CASE RemoveDomain(r)
  <2>1. InProgress(r) /\ call[r].at = "domainsDelete" /\ "evict" \in Stages
    BY <1>11 DEF RemoveDomain, InProgress, Stages
  <2> DEFINE ids == {s.id : s \in sessions \ Elsewhere(sessions, req[r].domain)}
  <2>2. ids \in SUBSET Ids
    BY DEF SessionIds
  <2>3. Answer(r) \/ call' = [call EXCEPT ![r].at = "evict", ![r].left = ids]
    BY <1>11 DEF RemoveDomain
  <2> HIDE DEF ids
  <2>4. CASE call' = [call EXCEPT ![r].at = "evict", ![r].left = ids]
    BY <2>1, <2>2, <2>4, ListMoves
  <2> QED
    BY <1>1, <2>1, <2>3, <2>4
<1>12. CASE Evict(r) \/ CheckSources(r)
  <2>1. call[r].at \in {"evict", "sessionsPost"}
    BY <1>12 DEF Evict, CheckSources
  <2>2. InProgress(r) /\ call[r].left \subseteq Ids
    BY <1>2, <2>1 DEF InProgress, Calls
  <2>3. \/ Answer(r)
        \/ \E at \in {"listUsers", "addSession"} : Goto(r, at)
        \/ \E i \in call[r].left : call' = [call EXCEPT ![r].left = @ \ {i}]
    BY <1>12 DEF Evict, CheckSources
  <2>4. CASE \E at \in {"listUsers", "addSession"} : Goto(r, at)
    BY <2>1, <2>4, PlainMoves DEF Stages
  <2>5. CASE \E i \in call[r].left : call' = [call EXCEPT ![r].left = @ \ {i}]
    <3>1. \E i \in Ids : call' = [call EXCEPT ![r].left = @ \ {i}]
      BY <2>2, <2>5
    <3> QED
      BY <2>1, <2>2, <3>1, VisitMoves
  <2> QED
    BY <1>1, <2>2, <2>3, <2>4, <2>5
<1>13. CASE ListUsers(r)
  <2> DEFINE ns == {n \in Names : users[n].domain = req[r].domain}
  <2>1. call' = [call EXCEPT ![r].at = "moveUsers", ![r].move = ns] /\ call[r].at = "listUsers"
    BY <1>13 DEF ListUsers
  <2>2. ns \in SUBSET Names /\ "moveUsers" \in Stages
    BY DEF Stages
  <2> HIDE DEF ns
  <2> QED
    BY <2>1, <2>2, ListMoves
<1>14. CASE MoveUser(r)
  <2>1. call[r].at = "moveUsers" /\ InProgress(r) /\ call[r].move \subseteq Names
    BY <1>2, <1>14 DEF MoveUser, InProgress, Calls
  <2>2. Answer(r) \/ \E n \in call[r].move : call' = [call EXCEPT ![r].move = @ \ {n}]
    BY <1>14 DEF MoveUser
  <2>3. CASE \E n \in call[r].move : call' = [call EXCEPT ![r].move = @ \ {n}]
    <3>1. \E n \in Names : call' = [call EXCEPT ![r].move = @ \ {n}]
      BY <2>1, <2>3
    <3> QED
      BY <2>1, <3>1, VisitMoves
  <2> QED
    BY <1>1, <2>1, <2>2, <2>3
<1>15. CASE CheckPcap(r) \/ MayDelete(r) \/ EngineRemove(r) \/ ReadNotes(r)
  <2>1. /\ call[r].at \in {"pcapDelete", "mayDelete", "engineRemove", "readNotes"}
        /\ Answer(r) \/ \E at \in {"mayDelete", "removePcap", "storeRemove", "writeNotes"} : Goto(r, at)
    BY <1>15 DEF CheckPcap, MayDelete, EngineRemove, ReadNotes
  <2>2. InProgress(r)
    BY <2>1 DEF InProgress
  <2>3. ASSUME NEW at \in {"mayDelete", "removePcap", "storeRemove", "writeNotes"}, Goto(r, at)
        PROVE  Moves(r)
    BY <2>1, <2>3, PlainMoves DEF Stages
  <2> QED
    BY <1>1, <2>1, <2>2, <2>3
<1>16. CASE AddSession(r)
  <2>1. InProgress(r) /\ call[r].at = "addSession" /\ "start" \in Stages
    BY <1>16 DEF AddSession, InProgress, Stages
  <2>2. \/ Answer(r)
        \/ nextSession \in Ids /\ call' = [call EXCEPT ![r].at = "start", ![r].made = nextSession]
    BY <1>16 DEF AddSession
  <2> QED
    BY <1>1, <2>1, <2>2, ListMoves
<1>17. CASE Find(r)
  <2>1. call[r].at = "find" /\ InProgress(r)
    BY <1>17 DEF Find, InProgress
  <2>2. Answer(r) \/ \E at \in {"engineRemove", "writeNotes", "readNotes"} : Goto(r, at)
    BY <1>17 DEF Find
  <2>3. ASSUME NEW at \in {"engineRemove", "writeNotes", "readNotes"}, Goto(r, at)
        PROVE  Moves(r)
    BY <2>1, <2>3, PlainMoves DEF Stages
  <2> QED
    BY <1>1, <2>1, <2>2, <2>3
<1> QED
  BY <1>3, <1>4, <1>5, <1>6, <1>7, <1>8, <1>9, <1>10, <1>11, <1>12, <1>13, <1>14,
     <1>15, <1>16, <1>17 DEF Handle

(* Sessions enter the store under an id that is free. *)
LEMMA SessionIdsKept ==
    ASSUME SessionIds, NEW r \in Requests, Handle(r)
    PROVE  SessionIds'
<1>1. ASSUME sessions' \subseteq sessions PROVE SessionIds'
  BY <1>1 DEF SessionIds
<1>2. ASSUME UNCHANGED world PROVE SessionIds'
  BY <1>1, <1>2 DEF world, objects, store
<1>3. ASSUME UNCHANGED objects PROVE SessionIds'
  BY <1>1, <1>3 DEF objects, store
<1>4. ASSUME UNCHANGED store PROVE SessionIds'
  BY <1>1, <1>4 DEF store
<1>5. CASE Check(r) \/ Info(r) \/ AskBootstrap(r) \/ UserDomain(r) \/ OwnerOnly(r)
           \/ Victim(r) \/ SpareOwner(r) \/ AskOwner(r) \/ ListUsers(r)
  BY <1>2, <1>5 DEF Check, Info, AskBootstrap, UserDomain, OwnerOnly, Victim, SpareOwner,
                    AskOwner, ListUsers
<1>6. CASE CheckPcap(r) \/ MayDelete(r) \/ CheckSources(r) \/ Find(r) \/ ReadNotes(r)
  BY <1>2, <1>6 DEF CheckPcap, MayDelete, CheckSources, Find, ReadNotes
<1>7. CASE CreateUser(r) \/ LogIn(r) \/ LogOut(r) \/ NameOwner(r) \/ MoveUser(r)
  BY <1>3, <1>7 DEF CreateUser, LogIn, LogOut, NameOwner, MoveUser
<1>8. CASE Delete(r) \/ Evict(r) \/ Start(r) \/ EngineRemove(r) \/ WriteNotes(r)
  BY <1>4, <1>8 DEF Delete, Evict, Start, EngineRemove, WriteNotes
<1>9. CASE AddDomain(r) \/ AddPcap(r) \/ RemovePcap(r) \/ StoreRemove(r)
  BY <1>1, <1>9 DEF AddDomain, AddPcap, RemovePcap, StoreRemove
<1>10. CASE RollBack(r) \/ RemoveDomain(r)
  BY <1>1, <1>4, <1>10 DEF RollBack, RemoveDomain, DropDomain, Elsewhere, store
<1>11. CASE AddSession(r)
  <2>1. CASE sessions' = sessions
    BY <1>1, <2>1
  <2>2. CASE sessions' # sessions
    <3>1. /\ nextSession \in Ids
          /\ sessions' = sessions \cup {Object(nextSession, call[r].domain, r)}
      BY <1>11, <2>2 DEF AddSession
    <3> QED
      BY <3>1 DEF SessionIds, Object
  <2> QED
    BY <2>1, <2>2
<1> QED
  BY <1>5, <1>6, <1>7, <1>8, <1>9, <1>10, <1>11 DEF Handle

(***************************************************************************)
(* The first administrators.                                               *)
(***************************************************************************)
Bold(r) == call[r].at = "create" /\ call[r].flag

FirstsPart ==
    /\ firsts \subseteq Names \X (Requests \cup {Seed})
    /\ \A f \in firsts : users[f[1]].role = "admin"
    /\ OneFirstAdmin
    /\ \A r \in Requests, f \in firsts : Bold(r) => f[2] # r /\ {f[2], r} \in met

LEMMA NoneFirst ==
    ASSUME FirstsPart, ~HasAdmin
    PROVE  firsts = {}
BY DEF FirstsPart, HasAdmin, Admins

(* Who is about to create the first administrator after a step of r. *)
LEMMA BoldAfter ==
    ASSUME CallsPart, NEW r \in Requests, Moves(r), NEW q \in Requests, Bold(q)'
    PROVE  \/ q # r /\ Bold(q)
           \/ q = r /\ ~HasAdmin
<1>1. PICK c \in Calls : /\ call' = [call EXCEPT ![r] = c]
                         /\ c.at = "create" /\ c.flag => ~HasAdmin
  BY DEF Moves
<1>2. call'[q] = IF q = r THEN c ELSE call[q]
  BY <1>1 DEF CallsPart
<1> QED
  BY <1>1, <1>2 DEF Bold

(* Nobody new becomes the first. *)
LEMMA FirstsShrink ==
    ASSUME CallsPart, FirstsPart, NEW r \in Requests, Moves(r), UNCHANGED met,
           firsts' \subseteq firsts, \A f \in firsts' : users'[f[1]].role = "admin"
    PROVE  FirstsPart'
<1>1. OneFirstAdmin'
  BY DEF FirstsPart, OneFirstAdmin
<1>2. ASSUME NEW q \in Requests, NEW f \in firsts', Bold(q)'
      PROVE  f[2] # q /\ {f[2], q} \in met
  BY <1>2, BoldAfter, NoneFirst DEF FirstsPart
<1>3. firsts' \subseteq Names \X (Requests \cup {Seed})
  BY DEF FirstsPart
<1> QED
  BY <1>1, <1>2, <1>3 DEF FirstsPart

LEMMA FirstsGrow ==
    ASSUME CallsPart, FirstsPart, NEW r \in Requests, Bold(r), Answer(r), UNCHANGED met, Grows,
           NEW n \in Names, users'[n].role = "admin", firsts' = firsts \cup {<<n, r>>}
    PROVE  FirstsPart'
<1>1. InProgress(r)
  BY DEF Bold, InProgress
<1>2. Moves(r)
  BY <1>1, AnswerMoves
<1>3. ~Bold(r)'
  BY DEF Answer, CallsPart, Idle, Bold
<1>4. \A f \in firsts : f[2] # r /\ {f[2], r} \in met
  BY DEF FirstsPart
<1>5. \A f \in firsts' : users'[f[1]].role = "admin"
  BY DEF FirstsPart, Grows
<1>6. firsts' \subseteq Names \X (Requests \cup {Seed})
  BY DEF FirstsPart
<1>7. OneFirstAdmin'
  <2> SUFFICES ASSUME NEW f \in firsts', NEW g \in firsts', f # g
               PROVE  {f[2], g[2]} \in met
    BY DEF OneFirstAdmin
  <2>1. CASE f \in firsts /\ g \in firsts
    BY <2>1 DEF FirstsPart, OneFirstAdmin
  <2>2. CASE f \in firsts /\ g = <<n, r>>
    BY <2>2, <1>4
  <2>3. CASE f = <<n, r>> /\ g \in firsts
    <3>1. {g[2], r} \in met /\ {g[2], r} = {f[2], g[2]}
      BY <2>3, <1>4
    <3> QED
      BY <3>1
  <2> QED
    BY <2>1, <2>2, <2>3
<1>8. ASSUME NEW q \in Requests, NEW f \in firsts', Bold(q)'
      PROVE  f[2] # q /\ {f[2], q} \in met
  <2>1. q # r /\ Bold(q)
    BY <1>2, <1>3, <1>8, BoldAfter
  <2>2. CASE f \in firsts
    BY <2>1, <2>2 DEF FirstsPart
  <2>3. CASE f = <<n, r>>
    <3>1. {r, q} \in met
      BY <1>1, <2>1 DEF CallsPart, Met, Bold, InProgress
    <3> QED
      BY <2>1, <2>3, <3>1
  <2> QED
    BY <2>2, <2>3
<1> QED
  BY <1>5, <1>6, <1>7, <1>8 DEF FirstsPart

(***************************************************************************)
(* Together.                                                               *)
(***************************************************************************)
AccountsInv == AccountsPart /\ CallsPart /\ SessionIds /\ FirstsPart

(* A handler that leaves the accounts alone. *)
LEMMA QuietKeeps ==
    ASSUME AccountsInv, NEW r \in Requests, Moves(r), UNCHANGED <<auth, accountHistory, met>>
    PROVE  AccountsPart' /\ FirstsPart'
<1>1. users' = users /\ tokens' = tokens /\ usersFile' = usersFile
      /\ acked' = acked /\ governed' = governed /\ firsts' = firsts
  BY DEF auth, accountHistory
<1>2. AccountsPart'
  BY <1>1 DEF AccountsInv, AccountsPart, AuthTypeOK, TokensHaveAccounts, AccountsKept,
              StaysGoverned, HasAdmin
<1>3. FirstsPart'
  BY <1>1, FirstsShrink DEF AccountsInv, FirstsPart
<1> QED
  BY <1>2, <1>3

LEMMA CreateUserKeeps ==
    ASSUME AccountsInv, NEW r \in Requests, CreateUser(r), UNCHANGED met
    PROVE  AccountsPart' /\ FirstsPart'
<1>1. PICK ok \in BOOLEAN : /\ RegisterUser(req[r].name, RoleAsked(r), DomainAsked(r), ok)
                            /\ Acknowledge(req[r].name, ok)
  BY DEF CreateUser
<1> DEFINE n == req[r].name
<1>2. req[r] \in Asks /\ CallFits(call[r], req[r]) /\ call[r].at = "create"
  BY DEF AccountsInv, CallsPart, CreateUser
<1>3. n \in Names /\ req[r].role \in {"admin", "user"} /\ req[r].domain \in Domains
  BY <1>2 DEF Asks
<1>4. RoleAsked(r) \in {"admin", "user"}
  BY <1>3 DEF RoleAsked
<1>5. DomainAsked(r) \in Domains
  BY <1>2, <1>3, AccountsAssumption DEF DomainAsked, CallFits
<1>6. /\ AuthTypeOK' /\ Grows /\ Filed /\ tokens' = tokens
      /\ ok => users'[n] # Absent /\ usersFile'[n] # Absent
      /\ users' # users => users'[n].role = RoleAsked(r)
  BY <1>1, <1>3, <1>4, <1>5, RegisterGrows DEF AccountsInv, AccountsPart
<1>7. AccountsPart'
  <2>1. AckedNow
    BY <1>1, <1>3, <1>6 DEF AckedNow, Acknowledge
  <2>2. Governed
    BY DEF CreateUser
  <2> QED
    BY <1>6, <2>1, <2>2, GrowthKeeps DEF AccountsInv
<1>8. Answer(r) /\ InProgress(r)
  BY <1>2 DEF CreateUser, InProgress
<1>9. Moves(r)
  BY <1>8, AnswerMoves
<1>10. FirstsPart'
  <2>1. CASE users' # users /\ req[r].op = "register" /\ call[r].flag
    <3>1. firsts' = firsts \cup {<<n, r>>}
      BY <2>1 DEF CreateUser
    <3>2. users'[n].role = "admin"
      BY <1>6, <2>1 DEF RoleAsked
    <3>3. Bold(r)
      BY <1>2, <2>1 DEF Bold
    <3> HIDE DEF n
    <3> QED
      BY <1>3, <1>6, <1>8, <3>1, <3>2, <3>3, FirstsGrow DEF AccountsInv
  <2>2. CASE ~(users' # users /\ req[r].op = "register" /\ call[r].flag)
    <3>1. firsts' = firsts
      BY <2>2 DEF CreateUser
    <3>2. \A f \in firsts' : users'[f[1]].role = "admin"
      BY <1>6, <3>1 DEF AccountsInv, FirstsPart, Grows
    <3> QED
      BY <1>9, <3>1, <3>2, FirstsShrink DEF AccountsInv
  <2> QED
    BY <2>1, <2>2
<1> QED
  BY <1>7, <1>10

LEMMA LogKeeps ==
    ASSUME AccountsInv, NEW r \in Requests, LogIn(r) \/ LogOut(r), UNCHANGED met
    PROVE  AccountsPart' /\ FirstsPart'
<1>1. /\ Answer(r) /\ InProgress(r)
      /\ acked' = acked /\ governed' = governed /\ firsts' = firsts
  BY DEF LogIn, LogOut, InProgress, accountHistory
<1>2. req[r].name \in Names /\ req[r].token \in Tokens
  BY DEF AccountsInv, CallsPart, Asks
<1>3. AccountsPart'
  <2>1. CASE LogIn(r)
    BY <1>1, <1>2, <2>1, LoginKeeps DEF LogIn, AccountsInv
  <2>2. CASE LogOut(r)
    BY <1>1, <1>2, <2>2, LogoutKeeps DEF LogOut, AccountsInv
  <2> QED
    BY <2>1, <2>2
<1>4. users' = users
  BY DEF LogIn, LogOut, Login, Logout, auth
<1>5. Moves(r)
  BY <1>1, AnswerMoves
<1>6. FirstsPart'
  BY <1>1, <1>4, <1>5, FirstsShrink DEF AccountsInv, FirstsPart
<1> QED
  BY <1>3, <1>6

LEMMA RemovalKeeps ==
    ASSUME AccountsInv, NEW r \in Requests, Delete(r), UNCHANGED met
    PROVE  AccountsPart' /\ FirstsPart'
<1>1. Answer(r) /\ InProgress(r)
  BY DEF Delete, InProgress
<1>2. Moves(r)
  BY <1>1, AnswerMoves
<1>3. CASE UNCHANGED <<auth, accountHistory>>
  BY <1>2, <1>3, QuietKeeps
<1>4. CASE ~UNCHANGED <<auth, accountHistory>>
  <2> DEFINE n == req[r].name
  <2>1. n \in Names
    BY DEF AccountsInv, CallsPart, Asks
  <2>2. /\ \E ok \in BOOLEAN : DeleteUser(n, ok)
        /\ acked' = IF users' = users THEN acked ELSE acked \ {n}
        /\ firsts' = {f \in firsts : users'[f[1]] # Absent}
        /\ Governed
    BY <1>4 DEF Delete
  <2> HIDE DEF n
  <2>3. AccountsPart'
    BY <2>1, <2>2, DeleteKeeps DEF AccountsInv
  <2>4. \A m \in Names : users'[m] \in {Absent, users[m]}
    BY <2>1, <2>2 DEF DeleteUser, Save, auth, AccountsInv, AccountsPart, AuthTypeOK
  <2>5. \A f \in firsts' : users'[f[1]].role = "admin"
    BY <2>2, <2>4 DEF AccountsInv, FirstsPart
  <2>6. firsts' \subseteq firsts
    BY <2>2
  <2>7. FirstsPart'
    BY <1>2, <2>5, <2>6, FirstsShrink DEF AccountsInv
  <2> QED
    BY <2>3, <2>7
<1> QED
  BY <1>3, <1>4

(* Owners and the users of a removed domain. *)
LEMMA TransferKeeps ==
    ASSUME AccountsInv, NEW r \in Requests, NameOwner(r) \/ MoveUser(r), Moves(r), UNCHANGED met
    PROVE  AccountsPart' /\ FirstsPart'
<1>1. AccountsPart /\ AuthTypeOK /\ call[r] \in Calls /\ req[r] \in Asks
  BY DEF AccountsInv, AccountsPart, CallsPart
<1>2. Governed /\ firsts' = firsts
  BY DEF NameOwner, MoveUser
<1>3. AuthTypeOK' /\ Grows /\ Filed /\ tokens' = tokens /\ AckedNow
  <2>1. CASE NameOwner(r)
    <3>1. PICK ok \in BOOLEAN :
             \/ SetDomain(req[r].name, req[r].domain, ok) /\ UNCHANGED acked
             \/ /\ RegisterUser(req[r].name, "user", req[r].domain, ok)
                /\ Acknowledge(req[r].name, ok)
      BY <2>1 DEF NameOwner
    <3>2. req[r].name \in Names /\ req[r].domain \in Domains
      BY <1>1 DEF Asks
    <3>3. CASE SetDomain(req[r].name, req[r].domain, ok) /\ UNCHANGED acked
      BY <1>1, <3>2, <3>3, SetDomainGrows DEF AckedNow
    <3>4. CASE /\ RegisterUser(req[r].name, "user", req[r].domain, ok)
               /\ Acknowledge(req[r].name, ok)
      <4>1. /\ AuthTypeOK' /\ Grows /\ Filed /\ tokens' = tokens
            /\ ok => users'[req[r].name] # Absent /\ usersFile'[req[r].name] # Absent
        BY <1>1, <3>2, <3>4, RegisterGrows
      <4> QED
        BY <3>2, <3>4, <4>1 DEF AckedNow, Acknowledge
    <3> QED
      BY <3>1, <3>3, <3>4
  <2>2. CASE MoveUser(r)
    <3>1. CASE UNCHANGED auth
      BY <1>1, <2>2, <3>1 DEF MoveUser, auth, AuthTypeOK, Grows, Filed, AckedNow
    <3>2. CASE ~UNCHANGED auth
      <4>1. PICK n \in call[r].move, ok \in BOOLEAN : SetDomain(n, DefaultDomain, ok)
        BY <2>2, <3>2 DEF MoveUser
      <4>2. n \in Names
        BY <1>1, <4>1 DEF Calls
      <4> QED
        BY <1>1, <2>2, <4>1, <4>2, SetDomainGrows, AccountsAssumption DEF AckedNow, MoveUser
    <3> QED
      BY <3>1, <3>2
  <2> QED
    BY <2>1, <2>2
<1>4. AccountsPart'
  BY <1>1, <1>2, <1>3, GrowthKeeps
<1>5. \A f \in firsts' : users'[f[1]].role = "admin"
  BY <1>2, <1>3 DEF AccountsInv, FirstsPart, Grows
<1>6. FirstsPart'
  BY <1>2, <1>5, FirstsShrink DEF AccountsInv
<1> QED
  BY <1>4, <1>6

LEMMA HandleKeeps ==
    ASSUME AccountsInv, NEW r \in Requests, Handle(r),
           UNCHANGED <<deployment, up, req, restarts, met>>
    PROVE  AccountsInv'
<1>1. Moves(r)
  BY HandleMoves DEF AccountsInv, AccountsPart
<1>2. CallsPart'
  BY <1>1, MovesKeep DEF AccountsInv
<1>3. SessionIds'
  BY SessionIdsKept DEF AccountsInv
<1>4. AccountsPart' /\ FirstsPart'
  <2>1. ASSUME UNCHANGED world PROVE AccountsPart' /\ FirstsPart'
    BY <1>1, <2>1, QuietKeeps DEF world
  <2>2. ASSUME UNCHANGED <<auth, accountHistory>> PROVE AccountsPart' /\ FirstsPart'
    BY <1>1, <2>2, QuietKeeps
  <2>3. CASE Check(r) \/ Info(r) \/ AskBootstrap(r) \/ UserDomain(r) \/ OwnerOnly(r)
             \/ Victim(r) \/ SpareOwner(r) \/ AskOwner(r) \/ ListUsers(r)
    BY <2>1, <2>3 DEF Check, Info, AskBootstrap, UserDomain, OwnerOnly, Victim, SpareOwner,
                      AskOwner, ListUsers
  <2>4. CASE CheckPcap(r) \/ MayDelete(r) \/ CheckSources(r) \/ Find(r) \/ ReadNotes(r)
    BY <2>1, <2>4 DEF CheckPcap, MayDelete, CheckSources, Find, ReadNotes
  <2>5. CASE Evict(r) \/ Start(r) \/ EngineRemove(r) \/ WriteNotes(r) \/ AddDomain(r)
    BY <2>2, <2>5 DEF Evict, Start, EngineRemove, WriteNotes, AddDomain
  <2>6. CASE AddPcap(r) \/ RemovePcap(r) \/ StoreRemove(r) \/ RollBack(r) \/ RemoveDomain(r)
             \/ AddSession(r)
    BY <2>2, <2>6 DEF AddPcap, RemovePcap, StoreRemove, RollBack, RemoveDomain, AddSession
  <2>7. CASE CreateUser(r)
    BY <2>7, CreateUserKeeps
  <2>8. CASE LogIn(r) \/ LogOut(r)
    BY <2>8, LogKeeps
  <2>9. CASE Delete(r)
    BY <2>9, RemovalKeeps
  <2>10. CASE NameOwner(r) \/ MoveUser(r)
    BY <1>1, <2>10, TransferKeeps
  <2> QED
    BY <2>3, <2>4, <2>5, <2>6, <2>7, <2>8, <2>9, <2>10 DEF Handle
<1> QED
  BY <1>2, <1>3, <1>4 DEF AccountsInv

LEMMA BeginKeeps ==
    ASSUME AccountsInv, NEW r \in Requests, Begin(r), UNCHANGED <<deployment, up, restarts>>
    PROVE  AccountsInv'
<1>1. PICK ask \in deployment.offers, base \in Bases :
         /\ req' = [req EXCEPT ![r] = ask]
         /\ call' = [call EXCEPT ![r] = [Idle EXCEPT
                !.at = IF ask.op \in {"register", "login"} THEN ask.op ELSE "check",
                !.base = base]]
  BY DEF Begin
<1>2. ask \in Asks
  BY ApiAssumption DEF AccountsInv, CallsPart
<1> DEFINE at == IF ask.op \in {"register", "login"} THEN ask.op ELSE "check"
           c == [Idle EXCEPT !.at = at, !.base = base]
<1>3. at \in {"register", "login", "check"} /\ (at = "check" \/ ask.op \in {"register", "login"})
  OBVIOUS
<1>4. at \in Stages /\ base \in Requests \cup {Seed}
  BY <1>3 DEF Stages, Ops, Bases
<1>5. call' = [call EXCEPT ![r] = c]
  BY <1>1
<1> HIDE DEF at
<1>6. c \in Calls /\ c.at = at /\ ~c.flag
  <2>1. Idle \in Calls /\ ~Idle.flag
    BY IdleCall DEF Idle
  <2> QED
    BY <1>4, <2>1 DEF Calls
<1> HIDE DEF c
<1>7. \A q \in Requests : call'[q] = IF q = r THEN c ELSE call[q]
  BY <1>5 DEF AccountsInv, CallsPart
<1>8. \A q \in Requests : req'[q] = IF q = r THEN ask ELSE req[q]
  BY <1>1 DEF AccountsInv, CallsPart
<1>9. up /\ met' = met \cup {{r, q} : q \in {x \in Requests : InProgress(x)}}
  BY DEF Begin
<1>10. UNCHANGED <<auth, accountHistory, sessions>>
  BY DEF Begin, world, objects, store
<1>11. users' = users /\ tokens' = tokens /\ usersFile' = usersFile
       /\ acked' = acked /\ governed' = governed /\ firsts' = firsts
  BY <1>10 DEF auth, accountHistory
<1>12. AccountsPart'
  BY <1>11 DEF AccountsInv, AccountsPart, AuthTypeOK, TokensHaveAccounts, AccountsKept,
               StaysGoverned, HasAdmin
<1>13. CallsPart'
  <2>1. call' \in [Requests -> Calls]
    BY <1>5, <1>6 DEF AccountsInv, CallsPart
  <2>2. req' \in [Requests -> Asks]
    BY <1>1, <1>2 DEF AccountsInv, CallsPart
  <2>3. \A q \in Requests : CallFits(call'[q], req'[q])
    BY <1>3, <1>6, <1>7, <1>8 DEF AccountsInv, CallsPart, CallFits
  <2>4. Met'
    <3> SUFFICES ASSUME NEW p \in Requests, NEW q \in Requests, p # q,
                        InProgress(p)', InProgress(q)'
                 PROVE  {p, q} \in met'
      BY DEF Met
    <3>1. CASE p = r
      <4>1. InProgress(q)
        BY <3>1, <1>7 DEF InProgress
      <4> QED
        BY <3>1, <4>1, <1>9
    <3>2. CASE q = r
      <4>1. InProgress(p)
        BY <3>2, <1>7 DEF InProgress
      <4>2. {r, p} \in met'
        BY <4>1, <1>9
      <4>3. {r, p} = {p, q}
        BY <3>2
      <4> QED
        BY <4>2, <4>3
    <3>3. CASE p # r /\ q # r
      <4>1. InProgress(p) /\ InProgress(q)
        BY <3>3, <1>7 DEF InProgress
      <4> QED
        BY <4>1, <1>9 DEF AccountsInv, CallsPart, Met
    <3> QED
      BY <3>1, <3>2, <3>3
  <2>5. \A q \in Requests : CallFits(call[q], req[q])'
    BY <2>3 DEF CallFits
  <2> QED
    BY <1>9, <2>1, <2>2, <2>4, <2>5 DEF AccountsInv, CallsPart
<1>14. SessionIds'
  BY <1>10 DEF AccountsInv, SessionIds
<1>15. FirstsPart'
  <2>1. \A q \in Requests : Bold(q)' => Bold(q)
    BY <1>3, <1>6, <1>7 DEF Bold
  <2>2. met \subseteq met'
    BY <1>9
  <2>3. OneFirstAdmin'
    BY <1>11, <2>2 DEF AccountsInv, FirstsPart, OneFirstAdmin
  <2> QED
    BY <1>11, <2>1, <2>2, <2>3 DEF AccountsInv, FirstsPart
<1> QED
  BY <1>12, <1>13, <1>14, <1>15 DEF AccountsInv

LEMMA CrashKeeps ==
    ASSUME AccountsInv, Crash
    PROVE  AccountsInv'
<1>1. AccountsPart'
  BY LoadKeeps DEF AccountsInv, Crash
<1>2. \A q \in Requests : call'[q] = IF InProgress(q) THEN [Idle EXCEPT !.at = "done"]
                                     ELSE call[q]
  BY DEF Crash
<1>3. \A q \in Requests : ~InProgress(q)'
  BY <1>2 DEF InProgress, Idle
<1>4. \A q \in Requests : CallFits(call[q], req[q])'
  BY <1>2 DEF CallFits, Idle, AccountsInv, CallsPart, Crash
<1>5. call' \in [Requests -> Calls]
  BY <1>2, IdleCall DEF AccountsInv, CallsPart, Crash
<1>6. CallsPart'
  BY <1>3, <1>4, <1>5 DEF AccountsInv, CallsPart, AtRest, Met, Crash
<1>7. SessionIds'
  BY DEF AccountsInv, SessionIds, Crash, store
<1>8. FirstsPart'
  <2>1. firsts' = {f \in firsts : users'[f[1]].role = "admin"} /\ met' = met
    BY DEF Crash, Load
  <2>2. \A q \in Requests : ~Bold(q)'
    BY <1>3 DEF Bold, InProgress
  <2>3. OneFirstAdmin'
    BY <2>1 DEF AccountsInv, FirstsPart, OneFirstAdmin
  <2> QED
    BY <2>1, <2>2, <2>3 DEF AccountsInv, FirstsPart
<1> QED
  BY <1>1, <1>6, <1>7, <1>8 DEF AccountsInv

LEMMA BootKeeps ==
    ASSUME AccountsInv, Boot
    PROVE  AccountsInv'
<1>1. AuthTypeOK' /\ Grows /\ Filed /\ tokens' = tokens /\ AckedNow
      /\ \A m \in Names : users'[m].role = "admin" /\ users[m].role # "admin" =>
                              deployment.admin = m
  <2>1. CASE deployment.admin \in Names
    <3>1. PICK ok \in BOOLEAN : EnsureAdmin(deployment.admin, ok)
      BY <2>1 DEF Boot
    <3> QED
      BY <2>1, <3>1, EnsureGrows DEF Boot, AccountsInv, AccountsPart, AckedNow
  <2>2. CASE deployment.admin \notin Names
    BY <2>2 DEF Boot, auth, AccountsInv, AccountsPart, AuthTypeOK, Grows, Filed, AckedNow
  <2> QED
    BY <2>1, <2>2
<1>2. AccountsPart'
  BY <1>1, GrowthKeeps DEF AccountsInv, Boot
<1>3. call' = call /\ req' = req /\ met' = met /\ deployment' = deployment /\ up' = TRUE
      /\ sessions' = sessions
  BY DEF Boot, objects, store
<1>4. CallsPart'
  BY <1>3 DEF AccountsInv, CallsPart, CallFits, Met, InProgress
<1>5. SessionIds'
  BY <1>3 DEF AccountsInv, SessionIds
<1>6. FirstsPart'
  <2>1. \A q \in Requests : ~InProgress(q)
    BY DEF AccountsInv, CallsPart, AtRest, Boot
  <2>2. \A q \in Requests : ~Bold(q)'
    BY <1>3, <2>1 DEF Bold, InProgress
  <2>3. CASE ~HasAdmin /\ Admins(users') # {}
    <3>1. firsts' = {<<deployment.admin, Seed>>}
      BY <2>3 DEF Boot
    <3>2. PICK m \in Names : users'[m].role = "admin"
      BY <2>3 DEF Admins
    <3>3. deployment.admin = m
      BY <1>1, <2>3, <3>2 DEF HasAdmin, Admins
    <3>4. firsts' = {<<m, Seed>>}
      BY <3>1, <3>3
    <3>5. OneFirstAdmin'
      BY <3>4 DEF OneFirstAdmin
    <3> QED
      BY <2>2, <3>2, <3>4, <3>5 DEF FirstsPart
  <2>4. CASE ~(~HasAdmin /\ Admins(users') # {})
    <3>1. firsts' = firsts
      BY <2>4 DEF Boot
    <3>2. OneFirstAdmin'
      BY <1>3, <3>1 DEF AccountsInv, FirstsPart, OneFirstAdmin
    <3> QED
      BY <1>1, <2>2, <3>1, <3>2 DEF AccountsInv, FirstsPart, Grows
  <2> QED
    BY <2>3, <2>4
<1> QED
  BY <1>2, <1>4, <1>5, <1>6 DEF AccountsInv

LEMMA RestKeeps ==
    ASSUME AccountsInv, UNCHANGED apiVars
    PROVE  AccountsInv'
<1>1. /\ users' = users /\ tokens' = tokens /\ usersFile' = usersFile
      /\ acked' = acked /\ governed' = governed /\ firsts' = firsts
      /\ deployment' = deployment /\ up' = up /\ req' = req /\ call' = call
      /\ met' = met /\ sessions' = sessions
  BY DEF apiVars, world, auth, accountHistory, objects, store
<1>2. AccountsPart'
  BY <1>1 DEF AccountsInv, AccountsPart, AuthTypeOK, TokensHaveAccounts, AccountsKept,
              StaysGoverned, HasAdmin
<1>3. CallsPart'
  BY <1>1 DEF AccountsInv, CallsPart, CallFits, Met, AtRest, InProgress
<1>4. SessionIds'
  BY <1>1 DEF AccountsInv, SessionIds
<1>5. FirstsPart'
  BY <1>1 DEF AccountsInv, FirstsPart, OneFirstAdmin, Bold
<1> QED
  BY <1>2, <1>3, <1>4, <1>5 DEF AccountsInv

LEMMA AccountsInit ==
    ASSUME Init
    PROVE  AccountsInv
<1>1. ApiInit
  BY DEF Init
<1>2. /\ deployment \in Deployments
      /\ users = deployment.users /\ usersFile = deployment.users
      /\ tokens = deployment.tokens
      /\ sessions = deployment.sessions
  BY <1>1 DEF ApiInit
<1>3. /\ deployment.users \in [Names -> Accounts \cup {Absent}]
      /\ deployment.tokens \in [Tokens -> Names \cup {Unissued, Revoked}]
      /\ \A t \in Tokens : deployment.tokens[t] \in Names =>
                             deployment.users[deployment.tokens[t]] # Absent
      /\ deployment.sessions \subseteq Objects
      /\ deployment.offers # {} /\ deployment.offers \subseteq Asks
      /\ deployment.up \in BOOLEAN
  BY <1>2, ApiAssumption
<1>4. AccountsPart
  <2>1. AuthTypeOK /\ TokensHaveAccounts
    BY <1>2, <1>3 DEF AuthTypeOK, TokensHaveAccounts
  <2>2. acked \subseteq Names /\ AccountsKept
    BY <1>1, <1>2 DEF ApiInit, AccountsKept
  <2>3. governed = (Admins(usersFile) # {}) /\ users = usersFile
    BY <1>1, <1>2 DEF ApiInit
  <2> QED
    BY <2>1, <2>2, <2>3 DEF AccountsPart, StaysGoverned, HasAdmin
<1>5. CallsPart
  <2>1. call = [q \in Requests |-> Idle] /\ up = deployment.up
    BY <1>1 DEF ApiInit
  <2>2. \A q \in Requests : call[q].at = "new" /\ ~call[q].flag
    BY <2>1 DEF Idle
  <2>3. \A q \in Requests : ~InProgress(q) /\ CallFits(call[q], req[q])
    BY <2>2 DEF InProgress, CallFits
  <2>4. (CHOOSE ask \in deployment.offers : TRUE) \in Asks
    BY <1>3
  <2>5. req \in [Requests -> Asks]
    BY <1>1, <2>4 DEF ApiInit
  <2> QED
    BY <1>2, <1>3, <2>1, <2>3, <2>5, IdleCall DEF CallsPart, Met, AtRest
<1>6. SessionIds
  BY <1>2, <1>3 DEF SessionIds, Objects
<1>7. FirstsPart
  BY <1>1 DEF ApiInit, FirstsPart, OneFirstAdmin
<1> QED
  BY <1>4, <1>5, <1>6, <1>7 DEF AccountsInv

LEMMA AccountsStep ==
    ASSUME AccountsInv, [Next]_vars
    PROVE  AccountsInv'
<1>1. CASE UNCHANGED apiVars
  BY <1>1, RestKeeps
<1>2. CASE ApiNext
  BY <1>2, BeginKeeps, HandleKeeps, CrashKeeps, BootKeeps DEF ApiNext
<1> QED
  BY <1>1, <1>2 DEF Next, RequestStep, ConnectionStep, RateStep, vars

(* Whatever requests overlap, saves fail and processes die: a token speaks *)
(* for an account that exists, an acknowledged account is in memory and in *)
(* users.json until it is deleted, a deployment that had an administrator  *)
(* keeps one, and two first administrators come only from registrations    *)
(* that were in progress at the same time (auth.cpp; api.cpp,              *)
(* handleRegister).                                                        *)
THEOREM AccountsSafe == Spec => []AccountsSound
<1>1. AccountsInv => AccountsSound
  BY DEF AccountsInv, AccountsPart, FirstsPart, AccountsSound
<1>2. AccountsInv /\ [Next]_vars => AccountsInv'
  BY AccountsStep
<1> QED
  BY <1>1, <1>2, AccountsInit, PTL DEF Spec

(***************************************************************************)
(* The connections.                                                        *)
(***************************************************************************)
Connection == [at : Places, fd : Descriptors \cup {0}, shut : BOOLEAN,
               busy : BOOLEAN, asked : 0 .. load.asked]

(* Where a thread may be whose request was being answered when drain()     *)
(* began, and where it is past its answer.                                 *)
Past == {"top", "closing", "closed", "upgraded", "stream", "left", "gone"}
Kept == {"busy", "written"} \cup Past

(* drain() holds an entry of a closed connection with c's descriptor. *)
Stale(c) == \E d \in Connections \ {c} : <<d, conn[c].fd>> \in copied /\ ~Open(d)

Stopping ==
    /\ ~listening => mStopping
    /\ acceptor = "returned" => mStopping
    /\ drain # "serving" => mStopping

(* Before drain() has a copy of the registry nothing is shut down. *)
Quiet ==
    drain \in {"serving", "pause"} =>
        /\ lost = {} /\ promised = {} /\ listed = {} /\ aim = 0 /\ copied = {}
        /\ \A c \in Connections : ~conn[c].shut

Copied ==
    /\ \A c \in listed : <<c, conn[c].fd>> \in copied
    /\ aim # 0 => <<aim, conn[aim].fd>> \in copied
    /\ \A d \in Connections : \A fd \in Descriptors :
         <<d, fd>> \in copied => fd = conn[d].fd /\ conn[d].at \notin {"none", "posted"}

Promised ==
    /\ \A c \in promised : conn[c].at \in Kept
    /\ aim \in promised => conn[aim].at \in Past
    /\ \A c \in promised : conn[c].at = "busy" /\ conn[c].shut => Stale(c)
    /\ \A c \in lost \cap promised : Stale(c)

Marked ==
    \A c \in Connections :
        /\ conn[c].busy <=> conn[c].at \in {"busy", "written"}
        /\ conn[c].at # "none" => conn[c].fd # 0

DrainInv == HttpTypeOK /\ Registered /\ Stopping /\ Quiet /\ Copied /\ Promised /\ Marked

(* A thread of c goes on: its descriptor stays, it begins to answer only   *)
(* what it has read, and once stop() was called it does not read again.    *)
Advances(c) ==
    \E x \in Connection :
        /\ conn' = [conn EXCEPT ![c] = x]
        /\ x.fd = conn[c].fd /\ x.shut = conn[c].shut
        /\ x.busy <=> x.at \in {"busy", "written"}
        /\ conn[c].at # "none" /\ x.at \notin {"none", "posted"}
        /\ conn[c].at \in {"closed", "gone"} => x.at = "gone"
        /\ x.at = "busy" => conn[c].at = "read"
        /\ mStopping /\ conn[c].at \in Kept => x.at \in Kept
        /\ conn[c].at \in Past => x.at \notin {"busy", "written"}
        /\ mClients' = IF x.at \in {"upgraded", "left", "gone"}
                       THEN mClients \ {c} ELSE mClients \cup {c}

LEMMA AdvancesKeep ==
    ASSUME DrainInv, NEW c \in Connections, Advances(c),
           UNCHANGED <<load, server, drain, listed, aim, copied>>,
           lost' \subseteq lost \cup {c}, promised' \subseteq promised,
           c \in lost' \ lost => conn[c].at = "busy" /\ conn[c].shut
    PROVE  DrainInv'
<1>1. PICK x \in Connection :
        /\ conn' = [conn EXCEPT ![c] = x]
        /\ x.fd = conn[c].fd /\ x.shut = conn[c].shut
        /\ x.busy <=> x.at \in {"busy", "written"}
        /\ conn[c].at # "none" /\ x.at \notin {"none", "posted"}
        /\ conn[c].at \in {"closed", "gone"} => x.at = "gone"
        /\ x.at = "busy" => conn[c].at = "read"
        /\ mStopping /\ conn[c].at \in Kept => x.at \in Kept
        /\ conn[c].at \in Past => x.at \notin {"busy", "written"}
        /\ mClients' = IF x.at \in {"upgraded", "left", "gone"}
                       THEN mClients \ {c} ELSE mClients \cup {c}
  BY DEF Advances
<1>2. \A d \in Connections : conn'[d] = IF d = c THEN x ELSE conn[d]
  BY <1>1 DEF DrainInv, HttpTypeOK
<1>3. /\ load' = load /\ mStopping' = mStopping /\ listening' = listening
      /\ acceptor' = acceptor /\ told' = told
      /\ drain' = drain /\ listed' = listed /\ aim' = aim /\ copied' = copied
  BY DEF server
<1>4. \A d \in Connections : conn'[d].fd = conn[d].fd /\ conn'[d].shut = conn[d].shut
  BY <1>1, <1>2
<1>5. \A d \in Connections : Open(d)' => Open(d)
  BY <1>1, <1>2 DEF Open
<1>6. HttpTypeOK'
  <2>1. conn' \in [Connections -> Connection]
    BY <1>1 DEF DrainInv, HttpTypeOK, Connection
  <2>2. mClients' \subseteq Connections
    BY <1>1 DEF DrainInv, HttpTypeOK
  <2> QED
    BY <1>3, <2>1, <2>2 DEF DrainInv, HttpTypeOK, Connection, Descriptors
<1>7. Registered'
  <2>1. \A d \in Connections : d \in mClients' <=>
          conn'[d].at \notin {"none", "posted", "upgraded", "left", "gone"}
    BY <1>1, <1>2 DEF DrainInv, Registered
  <2>2. \A b, d \in Connections : b # d /\ Open(b)' /\ Open(d)' => conn'[b].fd # conn'[d].fd
    BY <1>4, <1>5 DEF DrainInv, Registered
  <2> QED
    BY <2>1, <2>2 DEF Registered
<1>8. Stopping'
  BY <1>3 DEF DrainInv, Stopping
<1>9. Quiet'
  BY <1>3, <1>4 DEF DrainInv, Quiet
<1>10. Copied'
  BY <1>1, <1>2, <1>3, <1>4 DEF DrainInv, Copied, HttpTypeOK, Descriptors
<1>11. \A d \in Connections : Stale(d) => Stale(d)'
  BY <1>3, <1>4, <1>5 DEF Stale
<1>12. promised # {} => mStopping
  BY DEF DrainInv, Stopping, Quiet, HttpTypeOK
<1>13. Promised'
  <2>1. \A d \in promised' : conn'[d].at \in Kept
    BY <1>1, <1>2, <1>12 DEF DrainInv, Promised, HttpTypeOK
  <2>2. aim' \in promised' => conn'[aim'].at \in Past
    BY <1>1, <1>2, <1>3, <2>1 DEF DrainInv, Promised, HttpTypeOK, Kept
  <2>3. \A d \in promised' : conn'[d].at = "busy" /\ conn'[d].shut => Stale(d)'
    BY <1>1, <1>2, <1>4, <1>11 DEF DrainInv, Promised, HttpTypeOK, Kept, Past
  <2>4. \A d \in lost' \cap promised' : Stale(d)'
    BY <1>11 DEF DrainInv, Promised, HttpTypeOK
  <2> QED
    BY <2>1, <2>2, <2>3, <2>4 DEF Promised
<1>14. Marked'
  BY <1>1, <1>2 DEF DrainInv, Marked
<1> QED
  BY <1>6, <1>7, <1>8, <1>9, <1>10, <1>13, <1>14 DEF DrainInv

(* A step between two places, neither of which begins or ends an answer. *)
LEMMA StepAdvances ==
    ASSUME DrainInv, NEW c \in Connections, NEW from \in Places, NEW to \in Places,
           Step(c, from, to),
           from \notin {"none", "written"}, to \notin {"none", "posted", "busy"},
           to = "written" <=> from = "busy",
           from \in {"closed", "gone"} => to = "gone",
           mStopping /\ from \in Past => to \in Past,
           mClients' = IF to \in {"upgraded", "left", "gone"}
                       THEN mClients \ {c} ELSE mClients \cup {c}
    PROVE  Advances(c)
<1> DEFINE x == [conn[c] EXCEPT !.at = to]
<1>1. conn[c] \in Connection /\ conn[c].at = from
  BY DEF DrainInv, HttpTypeOK, Connection, Step
<1>2. /\ x \in Connection /\ x.at = to /\ x.fd = conn[c].fd
      /\ x.shut = conn[c].shut /\ x.busy = conn[c].busy
  BY <1>1 DEF Connection
<1>3. conn' = [conn EXCEPT ![c] = x]
  BY DEF Step, DrainInv, HttpTypeOK
<1>4. conn[c].busy <=> conn[c].at \in {"busy", "written"}
  BY DEF DrainInv, Marked
<1> HIDE DEF x
<1>5. x.busy <=> x.at \in {"busy", "written"}
  BY <1>1, <1>2, <1>4
<1>6. mStopping /\ conn[c].at \in Kept => x.at \in Kept
  BY <1>1, <1>2 DEF Kept
<1>7. conn[c].at \in Past => x.at \notin {"busy", "written"}
  BY <1>1, <1>2 DEF Past
<1> QED
  BY <1>1, <1>2, <1>3, <1>5, <1>6, <1>7 DEF Advances

(* The busy flag is set or cleared. *)
LEMMA FlagAdvances ==
    ASSUME DrainInv, NEW c \in Connections, NEW to \in Places, NEW b \in BOOLEAN,
           conn' = [conn EXCEPT ![c].at = to, ![c].busy = b],
           \/ b /\ to = "busy" /\ conn[c].at = "read"
           \/ ~b /\ to \in {"top", "closing", "upgraded"} /\ conn[c].at \in {"busy", "written"},
           mClients' = IF to = "upgraded" THEN mClients \ {c} ELSE mClients \cup {c}
    PROVE  Advances(c)
<1> DEFINE x == [conn[c] EXCEPT !.at = to, !.busy = b]
<1>1. conn[c] \in Connection
  BY DEF DrainInv, HttpTypeOK, Connection
<1>2. x \in Connection /\ x.at = to /\ x.fd = conn[c].fd /\ x.shut = conn[c].shut /\ x.busy = b
  BY <1>1 DEF Connection
<1>3. conn' = [conn EXCEPT ![c] = x]
  BY DEF DrainInv, HttpTypeOK
<1> HIDE DEF x
<1> QED
  BY <1>2, <1>3 DEF Advances, Kept, Past

LEMMA ReadAdvances ==
    ASSUME DrainInv, NEW c \in Connections, ReadRequest(c)
    PROVE  Advances(c)
<1>1. conn[c] \in Connection /\ mClients' = mClients /\ conn[c].at = "reading"
  BY DEF ReadRequest, DrainInv, HttpTypeOK, Connection, Step
<1>2. mClients = mClients \cup {c}
  BY <1>1 DEF DrainInv, Registered
<1>3. CASE \E to \in {"closing", "failed"} : Step(c, "reading", to)
  BY <1>1, <1>2, <1>3, StepAdvances DEF Places, Past
<1>4. CASE ~\E to \in {"closing", "failed"} : Step(c, "reading", to)
  <2> DEFINE n == conn[c].asked + 1
             x == [conn[c] EXCEPT !.at = "read", !.asked = n]
  <2>1. conn' = [conn EXCEPT ![c] = x] /\ conn[c].asked < load.asked
    BY <1>4 DEF ReadRequest, DrainInv, HttpTypeOK
  <2>2. load.asked \in Nat
    BY HttpAssumption DEF DrainInv, HttpTypeOK
  <2>3. n \in 0 .. load.asked
    BY <1>1, <2>1, <2>2 DEF Connection
  <2> HIDE DEF n
  <2>4. /\ x \in Connection /\ x.at = "read" /\ x.fd = conn[c].fd
        /\ x.shut = conn[c].shut /\ x.busy = conn[c].busy
    BY <1>1, <2>3 DEF Connection, Places
  <2>5. ~conn[c].busy
    BY <1>1 DEF DrainInv, Marked
  <2> HIDE DEF x
  <2> QED
    BY <1>1, <1>2, <2>1, <2>4, <2>5 DEF Advances, Kept, Past
<1> QED
  BY <1>3, <1>4

LEMMA ThreadKeeps ==
    ASSUME DrainInv, NEW c \in Connections, UNCHANGED load,
           Thread(c) \/ ReadRequest(c) \/ Upgrade(c) \/ StreamEnds(c)
    PROVE  DrainInv'
<1>1. c \in mClients <=> conn[c].at \notin {"none", "posted", "upgraded", "left", "gone"}
  BY DEF DrainInv, Registered
<1>2. ASSUME Advances(c), UNCHANGED <<server, draining, lost>>
      PROVE  DrainInv'
  BY <1>2, AdvancesKeep DEF draining
<1>3. CASE Serve(c)
  <2>1. Step(c, "posted", "top") /\ mClients' = mClients \cup {c}
    BY <1>3 DEF Serve, Step, Register
  <2>2. Advances(c)
    BY <2>1, StepAdvances DEF Places, Past
  <2> QED
    BY <1>2, <1>3, <2>2 DEF Serve
<1>4. CASE LoopTop(c)
  <2>1. mClients' = mClients \cup {c}
    BY <1>1, <1>4 DEF LoopTop, Step
  <2>2. Advances(c)
    BY <1>4, <2>1, StepAdvances DEF LoopTop, Places, Past
  <2> QED
    BY <1>2, <1>4, <2>2 DEF LoopTop
<1>5. CASE RefuseRequest(c)
  <2>1. mClients' = mClients \cup {c}
    BY <1>1, <1>5 DEF RefuseRequest, Step
  <2>2. Advances(c)
    BY <1>5, <2>1, StepAdvances DEF RefuseRequest, Places, Past
  <2> QED
    BY <1>2, <1>5, <2>2 DEF RefuseRequest
<1>6. CASE SetBusy(c)
  <2>1. mClients' = mClients \cup {c}
    BY <1>1, <1>6 DEF SetBusy
  <2>2. Advances(c)
    BY <1>6, <2>1, FlagAdvances DEF SetBusy, Places
  <2> QED
    BY <1>2, <1>6, <2>2 DEF SetBusy
<1>7. CASE Respond(c)
  <2>1. mClients' = mClients \cup {c}
    BY <1>1, <1>7 DEF Respond, Step
  <2>2. Advances(c)
    BY <1>7, <2>1, StepAdvances DEF Respond, Places, Past
  <2>3. /\ lost' \subseteq lost \cup {c} /\ promised' \subseteq promised
        /\ c \in lost' \ lost => conn[c].at = "busy" /\ conn[c].shut
    BY <1>7 DEF Respond, Step
  <2> QED
    BY <1>7, <2>2, <2>3, AdvancesKeep DEF Respond
<1>8. CASE ClearBusy(c)
  <2>1. mClients' = mClients \cup {c}
    BY <1>1, <1>8 DEF ClearBusy
  <2>2. Advances(c)
    BY <1>8, <2>1, FlagAdvances DEF ClearBusy, Places
  <2> QED
    BY <1>2, <1>8, <2>2 DEF ClearBusy
<1>9. CASE Close(c)
  <2>1. mClients' = mClients \cup {c}
    BY <1>1, <1>9 DEF Close, Step
  <2>2. Advances(c)
    BY <1>9, <2>1, StepAdvances DEF Close, Places, Past
  <2> QED
    BY <1>2, <1>9, <2>2 DEF Close
<1>10. CASE RemoveClient(c)
  <2>1. Advances(c)
    BY <1>10, StepAdvances DEF RemoveClient, Unregister, Places, Past
  <2> QED
    BY <1>2, <1>10, <2>1 DEF RemoveClient
<1>11. CASE Upgrade(c)
  <2>1. Advances(c)
    BY <1>11, FlagAdvances DEF Upgrade, Unregister, Places
  <2> QED
    BY <1>2, <1>11, <2>1 DEF Upgrade
<1>12. CASE HandleUpgrade(c)
  <2>1. CASE Step(c, "upgraded", "gone") /\ UNCHANGED mClients
    <3>1. mClients' = mClients \ {c}
      BY <1>1, <2>1 DEF Step
    <3> QED
      BY <2>1, <3>1, <1>2, <1>12, StepAdvances DEF HandleUpgrade, Places, Past
  <2>2. CASE Step(c, "upgraded", "stream") /\ Register(c)
    BY <2>2, <1>2, <1>12, StepAdvances DEF HandleUpgrade, Register, Places, Past
  <2> QED
    BY <1>12, <2>1, <2>2 DEF HandleUpgrade
<1>13. CASE StreamEnds(c)
  <2>1. Advances(c)
    BY <1>13, StepAdvances DEF StreamEnds, Unregister, Places, Past
  <2> QED
    BY <1>2, <1>13, <2>1 DEF StreamEnds
<1>14. CASE CloseStream(c)
  <2>1. mClients' = mClients \ {c}
    BY <1>1, <1>14 DEF CloseStream, Step
  <2>2. Advances(c)
    BY <1>14, <2>1, StepAdvances DEF CloseStream, Places, Past
  <2> QED
    BY <1>2, <1>14, <2>2 DEF CloseStream
<1>15. CASE ReadRequest(c)
  BY <1>2, <1>15, ReadAdvances DEF ReadRequest
<1> QED
  BY <1>3, <1>4, <1>5, <1>6, <1>7, <1>8, <1>9, <1>10, <1>11, <1>12, <1>13, <1>14, <1>15 DEF Thread

(* The signal handler and the accept loop leave the connections alone. *)
LEMMA ServerKeeps ==
    ASSUME DrainInv, Stop \/ ShutListener \/ AcceptEnds, UNCHANGED load
    PROVE  DrainInv'
<1>1. /\ conn' = conn /\ mClients' = mClients /\ load' = load /\ lost' = lost
      /\ drain' = drain /\ listed' = listed /\ aim' = aim /\ copied' = copied
      /\ promised' = promised
  BY DEF Stop, ShutListener, AcceptEnds, AcceptLoop, AcceptWoken, draining
<1>2. /\ mStopping' \in BOOLEAN /\ listening' \in BOOLEAN /\ told' \in BOOLEAN
      /\ acceptor' \in {"top", "accept", "returned"}
      /\ mStopping => mStopping'
      /\ ~listening' => mStopping'
      /\ acceptor' = "returned" => mStopping'
  BY DEF Stop, ShutListener, AcceptEnds, AcceptLoop, AcceptWoken, DrainInv, Stopping, HttpTypeOK
<1>3. HttpTypeOK'
  BY <1>1, <1>2 DEF DrainInv, HttpTypeOK, Descriptors
<1>4. Registered'
  BY <1>1 DEF DrainInv, Registered, Open
<1>5. Stopping'
  BY <1>1, <1>2 DEF DrainInv, Stopping
<1>6. Quiet' /\ Copied' /\ Marked'
  BY <1>1 DEF DrainInv, Quiet, Copied, Marked, Descriptors
<1>7. Promised'
  BY <1>1 DEF DrainInv, Promised, Stale, Open
<1> QED
  BY <1>3, <1>4, <1>5, <1>6, <1>7 DEF DrainInv

(* A new connection gets a number that no open one has. *)
LEMMA AcceptKeeps ==
    ASSUME DrainInv, NEW c \in Connections, Accept(c), UNCHANGED load
    PROVE  DrainInv'
<1>1. PICK fd \in FreeFds :
         conn' = [conn EXCEPT ![c] = [NoConn EXCEPT !.at = "posted", !.fd = fd]]
  BY DEF Accept
<1> DEFINE x == [NoConn EXCEPT !.at = "posted", !.fd = fd]
<1>2. 0 \in 0 .. load.asked /\ fd \in Descriptors
  BY HttpAssumption DEF DrainInv, HttpTypeOK, FreeFds
<1>3. x \in Connection /\ x.at = "posted" /\ x.fd = fd /\ ~x.shut /\ ~x.busy
  BY <1>2 DEF NoConn, Connection, Places
<1>4. conn' = [conn EXCEPT ![c] = x]
  BY <1>1
<1> HIDE DEF x
<1>5. \A d \in Connections : conn'[d] = IF d = c THEN x ELSE conn[d]
  BY <1>4 DEF DrainInv, HttpTypeOK
<1>6. /\ load' = load /\ mStopping' = mStopping /\ listening' = listening /\ told' = told
      /\ acceptor' = "top" /\ mClients' = mClients /\ lost' = lost
      /\ drain' = drain /\ listed' = listed /\ aim' = aim /\ copied' = copied
      /\ promised' = promised
  BY DEF Accept, draining
<1>7. conn[c].at = "none"
  BY DEF Accept
<1>8. \A d \in Connections : Open(d)' => d = c \/ Open(d)
  BY <1>5 DEF Open
<1>9. \A d \in Connections : Open(d) => conn[d].fd # fd
  BY <1>1 DEF FreeFds, Taken
<1>10. HttpTypeOK'
  <2>1. conn' \in [Connections -> Connection]
    BY <1>3, <1>4 DEF DrainInv, HttpTypeOK, Connection
  <2> QED
    BY <1>6, <2>1 DEF DrainInv, HttpTypeOK, Connection, Descriptors
<1>11. Registered'
  <2>1. \A d \in Connections : d \in mClients' <=>
          conn'[d].at \notin {"none", "posted", "upgraded", "left", "gone"}
    BY <1>3, <1>5, <1>6, <1>7 DEF DrainInv, Registered
  <2>2. \A b, d \in Connections : b # d /\ Open(b)' /\ Open(d)' => conn'[b].fd # conn'[d].fd
    BY <1>3, <1>5, <1>8, <1>9 DEF DrainInv, Registered
  <2> QED
    BY <2>1, <2>2 DEF Registered
<1>12. Stopping'
  BY <1>6 DEF DrainInv, Stopping
<1>13. Quiet'
  BY <1>3, <1>5, <1>6 DEF DrainInv, Quiet
<1>14. c \notin mClients /\ \A f \in Descriptors : <<c, f>> \notin copied
  BY <1>7 DEF DrainInv, Registered, Copied
<1>15. c \notin listed /\ c # aim /\ c \notin promised
  <2>1. conn[c].fd \in Descriptors \/ <<c, conn[c].fd>> \notin copied
    BY DEF DrainInv, HttpTypeOK
  <2>2. c \notin listed /\ c # aim
    BY <1>14, <2>1 DEF DrainInv, Copied, HttpTypeOK, Connections
  <2>3. c \notin promised
    BY <1>7 DEF DrainInv, Promised, Kept, Past
  <2> QED
    BY <2>2, <2>3
<1>16. Copied'
  BY <1>5, <1>6, <1>14, <1>15 DEF DrainInv, Copied, HttpTypeOK, Descriptors
<1>17. Promised'
  <2>1. \A d \in promised : Stale(d) => Stale(d)'
    <3> SUFFICES ASSUME NEW d \in promised, Stale(d) PROVE Stale(d)'
      OBVIOUS
    <3>1. PICK b \in Connections \ {d} : <<b, conn[d].fd>> \in copied /\ ~Open(b)
      BY DEF Stale
    <3>2. d # c /\ d \in Connections /\ conn'[d] = conn[d]
      BY <1>5, <1>15 DEF DrainInv, HttpTypeOK
    <3>3. b # c
      BY <1>14, <3>1 DEF DrainInv, HttpTypeOK
    <3>4. ~Open(b)'
      BY <1>8, <3>1, <3>3
    <3> QED
      BY <1>6, <3>1, <3>2, <3>4 DEF Stale
  <2> QED
    BY <1>5, <1>6, <1>15, <2>1 DEF DrainInv, Promised, HttpTypeOK
<1>18. Marked'
  <2>1. x.fd # 0
    BY <1>2, <1>3 DEF Descriptors
  <2> QED
    BY <1>3, <1>5, <2>1 DEF DrainInv, Marked
<1> QED
  BY <1>10, <1>11, <1>12, <1>13, <1>16, <1>17, <1>18 DEF DrainInv

LEMMA ListKeeps ==
    ASSUME DrainInv, TellStreams \/ ListClients, UNCHANGED load
    PROVE  DrainInv'
<1>1. /\ conn' = conn /\ mClients' = mClients /\ load' = load /\ lost' = lost /\ aim' = aim
      /\ mStopping' = mStopping /\ listening' = listening /\ acceptor' = acceptor
      /\ told' \in BOOLEAN
  BY DEF TellStreams, ListClients, server, DrainInv, HttpTypeOK
<1>2. mStopping /\ drain \in {"serving", "pause"}
  BY DEF TellStreams, ListClients, DrainInv, Stopping
<1>3. CASE TellStreams
  <2>1. drain' = "pause" /\ UNCHANGED <<listed, copied, promised>>
    BY <1>3 DEF TellStreams
  <2>2. HttpTypeOK' /\ Registered' /\ Stopping'
    BY <1>1, <1>2, <2>1 DEF DrainInv, HttpTypeOK, Descriptors, Registered, Open, Stopping, Quiet
  <2>3. Quiet' /\ Copied' /\ Marked'
    BY <1>1, <1>2, <2>1 DEF DrainInv, Quiet, Copied, Marked, Descriptors
  <2>4. Promised'
    BY <1>1, <2>1 DEF DrainInv, Promised, Stale, Open
  <2> QED
    BY <2>2, <2>3, <2>4 DEF DrainInv
<1>4. CASE ListClients
  <2>1. /\ listed' = mClients /\ drain' = "look"
        /\ copied' = {<<c, conn[c].fd>> : c \in mClients}
        /\ promised' = {c \in mClients : conn[c].busy}
    BY <1>4 DEF ListClients
  <2>2. /\ lost = {} /\ aim = 0
        /\ \A c \in Connections : ~conn[c].shut
    BY <1>2 DEF DrainInv, Quiet
  <2>3. mClients \subseteq Connections
    BY DEF DrainInv, HttpTypeOK
  <2>4. \A c \in mClients : /\ conn[c].fd \in Descriptors
                            /\ conn[c].at \notin {"none", "posted"}
    BY <2>3 DEF DrainInv, HttpTypeOK, Registered, Marked
  <2>5. HttpTypeOK'
    <3>1. copied' \subseteq Connections \X Descriptors
      BY <2>1, <2>3, <2>4
    <3>2. promised' \subseteq Connections
      BY <2>1, <2>3
    <3> QED
      BY <1>1, <2>1, <2>2, <3>1, <3>2 DEF DrainInv, HttpTypeOK, Descriptors
  <2>6. Registered' /\ Stopping' /\ Marked' /\ Quiet'
    BY <1>1, <1>2, <2>1 DEF DrainInv, Registered, Open, Stopping, Marked, Quiet
  <2>7. Copied'
    BY <1>1, <2>1, <2>2, <2>4 DEF Copied
  <2>8. Promised'
    <3>1. \A c \in promised' : c \in Connections /\ conn'[c].at \in Kept /\ ~conn'[c].shut
      BY <1>1, <2>1, <2>2, <2>3 DEF DrainInv, Marked, Kept
    <3>2. aim' \notin promised'
      BY <1>1, <2>2, <3>1 DEF Connections
    <3> QED
      BY <1>1, <2>2, <3>1, <3>2 DEF Promised
  <2> QED
    BY <2>5, <2>6, <2>7, <2>8 DEF DrainInv
<1> QED
  BY <1>3, <1>4

(* drain() takes up an entry, or is done with them. *)
LEMMA LookKeeps ==
    ASSUME DrainInv, Drained \/ \E c \in Connections : Look(c), UNCHANGED load
    PROVE  DrainInv'
<1>1. /\ conn' = conn /\ mClients' = mClients /\ load' = load /\ lost' = lost
      /\ mStopping' = mStopping /\ listening' = listening /\ acceptor' = acceptor
      /\ told' = told /\ copied' = copied /\ promised' = promised
      /\ drain = "look" /\ listed' \subseteq listed
  BY DEF Drained, Look, server
<1>2. \/ drain' \in {"look", "done"} /\ aim' = aim
      \/ drain' = "shut" /\ aim' \in listed /\ ~conn[aim'].busy
  BY DEF Drained, Look
<1>3. aim = 0 /\ mStopping
  BY <1>1 DEF DrainInv, HttpTypeOK, Stopping
<1>4. listed \subseteq Connections /\ 0 \notin Connections
  BY DEF DrainInv, HttpTypeOK, Connections
<1>5. HttpTypeOK'
  BY <1>1, <1>2, <1>3, <1>4 DEF DrainInv, HttpTypeOK, Descriptors
<1>6. Registered' /\ Stopping' /\ Marked' /\ Quiet'
  BY <1>1, <1>2, <1>3 DEF DrainInv, Registered, Open, Stopping, Marked, Quiet
<1>7. Copied'
  BY <1>1, <1>2 DEF DrainInv, Copied, Descriptors
<1>8. Promised'
  <2>1. aim' \in promised => conn[aim'].at \in Past
    BY <1>2, <1>3, <1>4 DEF DrainInv, Promised, HttpTypeOK, Marked, Kept
  <2> QED
    BY <1>1, <2>1 DEF DrainInv, Promised, Stale, Open
<1> QED
  BY <1>5, <1>6, <1>7, <1>8 DEF DrainInv

(* shutdown() reaches the connection it found idle, or whichever has its   *)
(* number by now.                                                          *)
LEMMA ShutdownKeeps ==
    ASSUME DrainInv, Shutdown, UNCHANGED load
    PROVE  DrainInv'
<1>1. /\ mClients' = mClients /\ load' = load /\ lost' = lost
      /\ mStopping' = mStopping /\ listening' = listening /\ acceptor' = acceptor
      /\ told' = told /\ copied' = copied /\ promised' = promised
      /\ listed' = listed /\ drain = "shut" /\ drain' = "look" /\ aim' = 0
  BY DEF Shutdown, server
<1>2. aim \in Connections /\ 0 \notin Connections
  BY <1>1 DEF DrainInv, HttpTypeOK, Connections
<1>3. conn' = [d \in Connections |-> IF Open(d) /\ conn[d].fd = conn[aim].fd
                                     THEN [conn[d] EXCEPT !.shut = TRUE] ELSE conn[d]]
  BY DEF Shutdown
<1>4. \A d \in Connections : conn[d] \in Connection
  BY DEF DrainInv, HttpTypeOK, Connection
<1>5. ASSUME NEW d \in Connections
      PROVE  /\ conn'[d] \in Connection
             /\ conn'[d].at = conn[d].at /\ conn'[d].fd = conn[d].fd
             /\ conn'[d].busy = conn[d].busy
             /\ conn'[d].shut => conn[d].shut \/ (Open(d) /\ conn[d].fd = conn[aim].fd)
  <2>1. CASE Open(d) /\ conn[d].fd = conn[aim].fd
    <3> DEFINE x == [conn[d] EXCEPT !.shut = TRUE]
    <3>1. x \in Connection /\ x.at = conn[d].at /\ x.fd = conn[d].fd /\ x.busy = conn[d].busy
      BY <1>4 DEF Connection
    <3>2. conn'[d] = x
      BY <1>3, <2>1
    <3> HIDE DEF x
    <3> QED
      BY <2>1, <3>1, <3>2
  <2>2. CASE ~(Open(d) /\ conn[d].fd = conn[aim].fd)
    <3>1. conn'[d] = conn[d]
      BY <1>3, <2>2
    <3> QED
      BY <1>4, <3>1
  <2> QED
    BY <2>1, <2>2
<1>6. \A d \in Connections : Open(d)' <=> Open(d)
  BY <1>5 DEF Open
<1>7. HttpTypeOK'
  <2>1. conn' \in [Connections -> Connection]
    <3>1. DOMAIN conn' = Connections /\ conn' = [d \in Connections |-> conn'[d]]
      BY <1>3
    <3> QED
      BY <1>5, <3>1
  <2> QED
    BY <1>1, <1>2, <2>1 DEF DrainInv, HttpTypeOK, Connection, Descriptors
<1>8. Registered'
  BY <1>1, <1>5, <1>6 DEF DrainInv, Registered
<1>9. Stopping' /\ Quiet'
  BY <1>1 DEF DrainInv, Stopping, Quiet
<1>10. Marked'
  BY <1>5 DEF DrainInv, Marked
<1>11. Copied'
  BY <1>1, <1>2, <1>5 DEF DrainInv, Copied, HttpTypeOK, Descriptors
<1>12. \A d \in Connections : Stale(d) => Stale(d)'
  BY <1>1, <1>5, <1>6 DEF Stale
<1>13. Promised'
  <2>1. promised \subseteq Connections
    BY DEF DrainInv, HttpTypeOK
  <2>2. ASSUME NEW c \in promised, conn'[c].at = "busy", conn'[c].shut
        PROVE  Stale(c)'
    <3>1. c \in Connections /\ conn[c].at = "busy"
      BY <1>5, <2>1, <2>2
    <3>2. CASE conn[c].shut
      BY <1>12, <3>1, <3>2 DEF DrainInv, Promised
    <3>3. CASE ~conn[c].shut
      <4>1. Open(c) /\ conn[c].fd = conn[aim].fd
        BY <1>5, <2>2, <3>1, <3>3
      <4>2. c # aim
        BY <3>1 DEF DrainInv, Promised, Past
      <4>3. ~Open(aim)
        BY <1>2, <3>1, <4>1, <4>2 DEF DrainInv, Registered
      <4>4. <<aim, conn[c].fd>> \in copied
        BY <1>2, <4>1 DEF DrainInv, Copied
      <4>5. Stale(c)
        BY <1>2, <4>2, <4>3, <4>4 DEF Stale
      <4> QED
        BY <1>12, <3>1, <4>5
    <3> QED
      BY <3>2, <3>3
  <2>3. \A c \in promised : conn'[c].at \in Kept
    BY <1>5, <2>1 DEF DrainInv, Promised
  <2>4. \A c \in lost \cap promised : Stale(c)'
    BY <1>12, <2>1 DEF DrainInv, Promised
  <2>5. aim' \notin promised'
    BY <1>1, <1>2, <2>1
  <2> QED
    BY <1>1, <2>2, <2>3, <2>4, <2>5 DEF Promised
<1> QED
  BY <1>7, <1>8, <1>9, <1>10, <1>11, <1>13 DEF DrainInv

LEMMA DrainInit ==
    ASSUME Init
    PROVE  DrainInv
<1>1. HttpInit
  BY DEF Init
<1>2. load \in Loads /\ 0 \in 0 .. load.asked
  BY <1>1, HttpAssumption DEF HttpInit
<1>3. NoConn \in Connection
  BY <1>2 DEF NoConn, Connection, Places
<1>4. conn = [c \in Connections |-> NoConn]
  BY <1>1 DEF HttpInit
<1>5. conn \in [Connections -> Connection]
  BY <1>3, <1>4
<1>6. \A c \in Connections : conn[c].at = "none" /\ ~conn[c].shut /\ ~conn[c].busy
  BY <1>4 DEF NoConn
<1>7. HttpTypeOK
  BY <1>1, <1>2, <1>5 DEF HttpInit, HttpTypeOK, Connection, Connections
<1>8. Registered /\ Marked
  BY <1>1, <1>6 DEF HttpInit, Registered, Marked, Open
<1>9. Stopping /\ Quiet /\ Copied /\ Promised
  BY <1>1, <1>6 DEF HttpInit, Stopping, Quiet, Copied, Promised, Connections
<1> QED
  BY <1>7, <1>8, <1>9 DEF DrainInv

LEMMA DrainStep ==
    ASSUME DrainInv, [Next]_vars
    PROVE  DrainInv'
<1>1. CASE UNCHANGED httpVars
  <2>1. /\ conn' = conn /\ mClients' = mClients /\ load' = load /\ lost' = lost
        /\ mStopping' = mStopping /\ listening' = listening /\ acceptor' = acceptor
        /\ told' = told /\ drain' = drain /\ listed' = listed /\ aim' = aim
        /\ copied' = copied /\ promised' = promised
    BY <1>1 DEF httpVars, threadVars, server, draining
  <2>2. HttpTypeOK' /\ Registered' /\ Stopping' /\ Quiet' /\ Copied' /\ Marked'
    BY <2>1 DEF DrainInv, HttpTypeOK, Descriptors, Registered, Open, Stopping, Quiet, Copied,
                Marked
  <2>3. Promised'
    BY <2>1 DEF DrainInv, Promised, Stale, Open
  <2> QED
    BY <2>2, <2>3 DEF DrainInv
<1>2. CASE HttpNext
  <2>1. load' = load
    BY <1>2 DEF HttpNext
  <2>2. CASE Stop \/ ShutListener \/ AcceptEnds
    BY <2>1, <2>2, ServerKeeps
  <2>3. CASE Main
    BY <2>1, <2>3, ListKeeps, LookKeeps, ShutdownKeeps DEF Main
  <2>4. CASE \E c \in Connections :
               Accept(c) \/ Thread(c) \/ ReadRequest(c) \/ Upgrade(c) \/ StreamEnds(c)
    BY <2>1, <2>4, AcceptKeeps, ThreadKeeps
  <2> QED
    BY <1>2, <2>2, <2>3, <2>4 DEF HttpNext
<1> QED
  BY <1>1, <1>2 DEF Next, RequestStep, ConnectionStep, RateStep, vars

(* However the signal handler, the accept loop, the threads and drain()    *)
(* interleave, and whatever number accept() takes: the response in hand of *)
(* a connection that was busy when drain() began is delivered unless       *)
(* drain() held an entry of a closed connection with the same descriptor,  *)
(* and the registry lists the clients that drain() may have to wake        *)
(* (http.cpp, drain and handleConnection).                                 *)
THEOREM ResponsesKept == Spec => []PromisesKept
<1>1. DrainInv => PromisesKept
  <2> SUFFICES ASSUME DrainInv PROVE PromiseKept /\ Registered
    BY DEF PromisesKept
  <2>1. drain \in {"serving", "pause"} => lost = {}
    BY DEF DrainInv, Quiet
  <2>2. \A c \in lost \cap promised :
          \E d \in Connections \ {c} : <<d, conn[c].fd>> \in copied /\ ~Open(d)
    BY DEF DrainInv, Promised, Stale
  <2> QED
    BY <2>1, <2>2 DEF DrainInv, PromiseKept
<1>2. DrainInv /\ [Next]_vars => DrainInv'
  BY DrainStep
<1> QED
  BY <1>1, <1>2, DrainInit, PTL DEF Spec

(* What the server keeps of connections has its types: the flags of each   *)
(* one, the registry, and the copy that drain() works on (http.cpp,        *)
(* drain and handleConnection).                                            *)
THEOREM ConnectionsTyped == Spec => []HttpTypeOK
<1>1. DrainInv => HttpTypeOK
  BY DEF DrainInv
<1>2. DrainInv /\ [Next]_vars => DrainInv'
  BY DrainStep
<1> QED
  BY <1>1, <1>2, DrainInit, PTL DEF Spec

(***************************************************************************)
(* The buckets.                                                            *)
(***************************************************************************)
LimitsTyped ==
    /\ now \in Nat
    /\ mBuckets \in [Keys -> [tokens : Int, last : Nat]]
    /\ granted \in [Keys -> Nat] /\ since \in [Keys -> Nat]
    /\ upto \in [Keys -> Nat] /\ back \in [Keys -> Nat]
    /\ leaked \subseteq Keys \X Keys

(* What caller k may have been granted when its refill is counted up to t. *)
Allowance(k, t, b) == Burst[k] + Rate[k] * (t - since[k] + b)

(* Dropped before it was full. *)
Leaky(k) == \E x \in leaked : x[1] = k

(* A caller owns what it was granted and what its bucket holds, a full one *)
(* when it has none; only a reading that went back makes a bucket owe.     *)
KeyPart(k) ==
    /\ upto[k] <= now
    /\ mBuckets[k].tokens <= Burst[k]
    /\ mBuckets[k].tokens < 0 => back[k] # 0
    /\ Known(k) => mBuckets[k].last = upto[k] /\ since[k] # 0
    /\ since[k] = 0 => granted[k] = 0 /\ back[k] = 0 /\ upto[k] = 0
    /\ since[k] # 0 /\ ~Leaky(k) =>
          /\ granted[k] <= Allowance(k, upto[k], back[k])
          /\ Known(k) => granted[k] + mBuckets[k].tokens <= Allowance(k, upto[k], back[k])
          /\ ~Known(k) => granted[k] + Burst[k] <= Allowance(k, upto[k], back[k])

LeakedPart == \A x \in leaked : Burst[x[2]] < Burst[x[1]] \/ back[x[1]] # 0

LimitsInv == LimitsTyped /\ LeakedPart /\ \A k \in Keys : KeyPart(k)

LEMMA TimesSum == \A r \in Nat, a, b \in Int : r * (a + b) = r * a + r * b /\ r * a \in Int
  BY Z3

LEMMA TimesMore == \A r \in Nat, a, b \in Int : a <= b => r * a <= r * b
  BY Z3

LEMMA DivWhole ==
    \A x \in Int, p \in Nat \ {0} :
        /\ x \div p \in Int
        /\ x >= 0 => x \div p <= x /\ 0 <= x \div p
        /\ x <= 0 => x \div p <= 0
  BY Z3

LEMMA DivMore == \A x, b \in Int, p \in Nat \ {0} : b * p <= x => b <= x \div p
  BY Z3

(* A refill adds at most what the rate gives, takes nothing away unless    *)
(* the reading went back, and fills an idle bucket.                        *)
LEMMA RefilledBounds ==
    ASSUME LimitsTyped, NEW k \in Keys, KeyPart(k), NEW p \in Nat \ {0}, NEW t \in Nat
    PROVE  /\ Refilled(k, p, t) \in Int /\ Refilled(k, p, t) <= Burst[k]
           /\ t <= mBuckets[k].last => Refilled(k, p, t) <= mBuckets[k].tokens
           /\ mBuckets[k].last <= t =>
                /\ mBuckets[k].tokens <= Refilled(k, p, t)
                /\ Refilled(k, p, t) <= mBuckets[k].tokens + Rate[k] * (t - mBuckets[k].last)
           /\ p = Penalty /\ t - mBuckets[k].last > BucketIdle /\ mBuckets[k].tokens >= 0
                => Refilled(k, p, t) = Burst[k]
<1> DEFINE d == t - mBuckets[k].last
           x == d * Rate[k]
<1>1. /\ mBuckets[k].tokens \in Int /\ mBuckets[k].last \in Nat
      /\ mBuckets[k].tokens <= Burst[k]
  BY DEF LimitsTyped, KeyPart
<1>2. Rate[k] \in Nat /\ Burst[k] \in Nat
  BY GuardAssumption
<1>3. d \in Int /\ 0 \in Int
  BY <1>1
<1>4. /\ x \in Int /\ x = Rate[k] * d /\ (d >= 0 => x >= 0) /\ (d <= 0 => x <= 0)
  <2> HIDE DEF d
  <2> QED
    BY <1>2, <1>3, Z3
<1>5. Refilled(k, p, t) = Lesser(Burst[k], mBuckets[k].tokens + (x \div p))
  BY DEF Refilled
<1>6. /\ x \div p \in Int
      /\ x >= 0 => x \div p <= x /\ 0 <= x \div p
      /\ x <= 0 => x \div p <= 0
  <2> HIDE DEF x
  <2> QED
    BY <1>4, DivWhole
<1>7. ASSUME p = Penalty, d > BucketIdle
      PROVE  Burst[k] <= x \div p
  <2>1. /\ Burst[k] * Penalty <= (BucketIdle + 1) * Rate[k]
        /\ BucketIdle \in Nat
    BY GuardAssumption
  <2>2. (BucketIdle + 1) * Rate[k] <= Rate[k] * d
    <3>1. Rate[k] * (BucketIdle + 1) <= Rate[k] * d
      <4>1. BucketIdle + 1 \in Int /\ BucketIdle + 1 <= d
        BY <1>3, <1>7, <2>1
      <4> HIDE DEF d
      <4> QED
        BY <1>2, <1>3, <4>1, TimesMore
    <3> HIDE DEF d
    <3> QED
      BY <1>2, <2>1, <3>1, Z3
  <2>3. Burst[k] * Penalty <= x
    <3> HIDE DEF x, d
    <3> DEFINE u == Burst[k] * Penalty
               v == (BucketIdle + 1) * Rate[k]
               w == Rate[k] * d
    <3>1. u \in Int /\ v \in Int /\ w \in Int /\ u <= v /\ v <= w /\ x = w
      <4>1. Penalty \in Nat
        BY GuardAssumption
      <4> QED
        BY <1>2, <1>3, <1>4, <2>1, <2>2, <4>1, Z3
    <3> HIDE DEF u, v, w
    <3>2. u <= x
      BY <3>1
    <3> QED
      BY <3>2 DEF u
  <2> HIDE DEF x, d
  <2> QED
    BY <1>2, <1>4, <1>7, <2>3, DivMore
<1> QED
  <2> DEFINE q == x \div p
  <2> HIDE DEF q, x
  <2>1. /\ Refilled(k, p, t) \in Int /\ Refilled(k, p, t) <= Burst[k]
        /\ Refilled(k, p, t) <= mBuckets[k].tokens + q
        /\ Refilled(k, p, t) = Burst[k] \/ Refilled(k, p, t) = mBuckets[k].tokens + q
    BY <1>1, <1>2, <1>5, <1>6 DEF Lesser, q
  <2> QED
    BY <1>1, <1>2, <1>4, <1>6, <1>7, <2>1 DEF q

(* One call of allow(), for any caller, penalty and reading of the clock. *)
LEMMA AllowKeeps ==
    ASSUME LimitsInv, NEW k \in Keys, NEW p \in Nat \ {0}, NEW t \in Readings,
           Allow(k, p, t), now' = now
    PROVE  LimitsInv'
<1> DEFINE gone == Dropped(k)
           kept == Known(k) /\ k \notin gone
           have == IF kept THEN Refilled(k, p, t) ELSE Burst[k]
           left == IF have >= Token THEN have - Token ELSE have
           reach == [x \in Keys |-> IF x \in gone THEN now ELSE upto[x]]
           bucket == [tokens |-> left, last |-> t]
           spilt == {<<x, k>> : x \in {y \in gone : Refilled(y, Penalty, now) < Burst[y]}}
<1>1. LimitsTyped /\ LeakedPart /\ \A x \in Keys : KeyPart(x)
  BY DEF LimitsInv
<1>2. /\ mBuckets' = [x \in Keys |-> IF x = k THEN bucket
                         ELSE IF x \in gone THEN NoBucket ELSE mBuckets[x]]
      /\ granted' = [granted EXCEPT ![k] = @ + have - left]
      /\ since' = IF since[k] = 0 THEN [since EXCEPT ![k] = t] ELSE since
      /\ upto' = [reach EXCEPT ![k] = t]
      /\ back' = IF t < reach[k] THEN [back EXCEPT ![k] = @ + reach[k] - t] ELSE back
      /\ leaked' = leaked \cup spilt
  BY Zenon DEF Allow
<1>3. t \in Nat /\ t # 0 /\ t <= now /\ now \in Nat
  <2>1. t \in Times /\ t <= now
    BY DEF Readings
  <2>2. t \in Nat /\ t # 0
    BY <2>1 DEF Times
  <2> QED
    BY <1>1, <2>1, <2>2 DEF LimitsTyped
<1>4. \A x \in gone : x \in Keys /\ Known(x)
  BY DEF Dropped
<1>5. /\ Rate[k] \in Nat /\ Burst[k] \in Nat /\ Token \in Nat \ {0}
  BY GuardAssumption
<1>6. have \in Int /\ have <= Burst[k] /\ left \in Int /\ left <= have
  <2>1. Refilled(k, p, t) \in Int /\ Refilled(k, p, t) <= Burst[k]
    BY <1>1, <1>3, RefilledBounds
  <2>2. have \in Int /\ have <= Burst[k]
    <3> HIDE DEF kept
    <3> QED
      BY <1>5, <2>1
  <2> HIDE DEF have
  <2> QED
    BY <1>5, <2>2
<1>7. reach \in [Keys -> Nat] /\ \A x \in Keys : upto[x] <= reach[x] /\ reach[x] <= now
  BY <1>1, <1>3 DEF LimitsTyped, KeyPart
<1>8. have - left \in Nat /\ (have # left => have >= Token)
  BY <1>5, <1>6
<1>9. LimitsTyped'
  <2>1. mBuckets' \in [Keys -> [tokens : Int, last : Nat]]
    <3>1. bucket \in [tokens : Int, last : Nat] /\ NoBucket \in [tokens : Int, last : Nat]
      BY <1>3, <1>6 DEF NoBucket
    <3> HIDE DEF bucket, gone
    <3> QED
      BY <1>1, <1>2, <3>1 DEF LimitsTyped
  <2>2. granted' \in [Keys -> Nat]
    <3> DEFINE n == have - left
    <3>1. granted' = [granted EXCEPT ![k] = granted[k] + n]
      BY <1>1, <1>2, <1>6 DEF LimitsTyped
    <3>2. granted[k] + n \in Nat
      BY <1>1, <1>8 DEF LimitsTyped
    <3> QED
      BY <1>1, <3>1, <3>2 DEF LimitsTyped
  <2>3. since' \in [Keys -> Nat] /\ upto' \in [Keys -> Nat]
    <3> HIDE DEF reach
    <3> QED
      BY <1>1, <1>2, <1>3, <1>7 DEF LimitsTyped
  <2>4. back' \in [Keys -> Nat]
    <3> HIDE DEF reach
    <3> QED
      BY <1>1, <1>2, <1>3, <1>7 DEF LimitsTyped
  <2>5. leaked' \subseteq Keys \X Keys
    BY <1>1, <1>2, <1>4 DEF LimitsTyped
  <2> QED
    BY <1>1, <2>1, <2>2, <2>3, <2>4, <2>5 DEF LimitsTyped
<1>10. \A x \in Keys : back[x] # 0 => back'[x] # 0
  <2> HIDE DEF reach
  <2> QED
    BY <1>1, <1>2, <1>3, <1>7 DEF LimitsTyped
<1>11. LeakedPart'
  <2> SUFFICES ASSUME NEW x \in leaked'
               PROVE  Burst[x[2]] < Burst[x[1]] \/ back'[x[1]] # 0
    BY DEF LeakedPart
  <2>1. CASE x \in leaked
    BY <1>1, <1>10, <2>1 DEF LeakedPart, LimitsTyped
  <2>2. CASE x \notin leaked
    <3>1. PICK y \in gone : x = <<y, k>> /\ Refilled(y, Penalty, now) < Burst[y]
      BY <1>2, <2>2
    <3>2. y \in Keys /\ Known(y) /\ KeyPart(y)
      BY <1>1, <1>4
    <3>3. now - mBuckets[y].last > BucketIdle \/ mBuckets[y].tokens >= Burst[k]
      BY <3>1 DEF Dropped
    <3>4. mBuckets[y].last <= now /\ mBuckets[y] \in [tokens : Int, last : Nat]
      BY <1>1, <3>2 DEF KeyPart, LimitsTyped
    <3>5. /\ Refilled(y, Penalty, now) \in Int
          /\ mBuckets[y].tokens <= Refilled(y, Penalty, now)
          /\ now - mBuckets[y].last > BucketIdle /\ mBuckets[y].tokens >= 0
                => Refilled(y, Penalty, now) = Burst[y]
      <4>1. Penalty \in Nat \ {0}
        BY GuardAssumption
      <4> QED
        BY <1>1, <1>3, <3>2, <3>4, <4>1, RefilledBounds
    <3>6. Burst[y] \in Nat
      BY <3>2, GuardAssumption
    <3>7. CASE mBuckets[y].tokens >= Burst[k]
      BY <1>5, <3>1, <3>4, <3>5, <3>6, <3>7
    <3>8. CASE mBuckets[y].tokens < 0
      BY <1>10, <3>1, <3>2, <3>8 DEF KeyPart
    <3>9. CASE now - mBuckets[y].last > BucketIdle /\ mBuckets[y].tokens >= 0
      BY <3>1, <3>5, <3>6, <3>9
    <3> QED
      BY <3>3, <3>4, <3>7, <3>8, <3>9
  <2> QED
    BY <2>1, <2>2
<1>12. \A x \in gone : ~Leaky(x)' =>
          /\ since[x] # 0
          /\ granted[x] + Burst[x] <= Allowance(x, now, back[x])
  <2> SUFFICES ASSUME NEW x \in gone, ~Leaky(x)'
               PROVE  /\ since[x] # 0
                      /\ granted[x] + Burst[x] <= Allowance(x, now, back[x])
    OBVIOUS
  <2>1. x \in Keys /\ Known(x) /\ KeyPart(x)
    BY <1>1, <1>4
  <2>2. ~(Refilled(x, Penalty, now) < Burst[x]) /\ ~Leaky(x)
    <3>1. \A y \in leaked' : y[1] # x
      BY DEF Leaky
    <3>2. \A y \in leaked : y[1] # x
      BY <1>2, <3>1
    <3>3. <<x, k>> \notin spilt
      <4>1. <<x, k>>[1] = x
        OBVIOUS
      <4> HIDE DEF spilt
      <4> QED
        BY <1>2, <3>1, <4>1
    <3> QED
      BY <3>2, <3>3 DEF Leaky
  <2>3. /\ mBuckets[x].last = upto[x] /\ upto[x] <= now /\ since[x] # 0
        /\ granted[x] + mBuckets[x].tokens <= Allowance(x, upto[x], back[x])
    BY <2>1, <2>2 DEF KeyPart
  <2>4. /\ upto[x] \in Nat /\ since[x] \in Nat /\ back[x] \in Nat /\ granted[x] \in Nat
        /\ mBuckets[x].tokens \in Int
        /\ Rate[x] \in Nat /\ Burst[x] \in Nat /\ Penalty \in Nat \ {0}
    BY <1>1, <2>1, GuardAssumption DEF LimitsTyped
  <2>5. /\ Refilled(x, Penalty, now) \in Int
        /\ Refilled(x, Penalty, now) <= mBuckets[x].tokens + Rate[x] * (now - upto[x])
    BY <1>1, <1>3, <2>1, <2>3, <2>4, RefilledBounds
  <2> DEFINE a == upto[x] - since[x] + back[x]
             d == now - upto[x]
             b == now - since[x] + back[x]
  <2>6. /\ Rate[x] * b = Rate[x] * a + Rate[x] * d
        /\ Rate[x] * a \in Int /\ Rate[x] * d \in Int
    <3>1. a \in Int /\ d \in Int /\ b = a + d
      BY <1>3, <2>4
    <3> HIDE DEF a, b, d
    <3> QED
      BY <2>4, <3>1, TimesSum
  <2>7. /\ Allowance(x, upto[x], back[x]) = Burst[x] + Rate[x] * a
        /\ Allowance(x, now, back[x]) = Burst[x] + Rate[x] * b
    BY DEF Allowance
  <2> DEFINE ra == Rate[x] * a
             rd == Rate[x] * d
             rb == Rate[x] * b
  <2> HIDE DEF ra, rd, rb
  <2>8. granted[x] + Burst[x] <= Burst[x] + rb
    <3>1. rb = ra + rd /\ ra \in Int /\ rd \in Int
      BY <2>6 DEF ra, rb, rd
    <3>2. granted[x] + mBuckets[x].tokens <= Burst[x] + ra
      BY <2>3, <2>7 DEF ra
    <3>3. Refilled(x, Penalty, now) <= mBuckets[x].tokens + rd
      BY <2>5 DEF rd
    <3> QED
      BY <2>2, <2>4, <2>5, <3>1, <3>2, <3>3
  <2> QED
    BY <2>3, <2>7, <2>8 DEF rb
<1>13. \A x \in Keys : Leaky(x) => Leaky(x)'
  BY <1>2 DEF Leaky
<1>14. ASSUME NEW x \in Keys, x # k
       PROVE  KeyPart(x)'
  <2>1. KeyPart(x)
    BY <1>1
  <2>2. /\ granted'[x] = granted[x] /\ since'[x] = since[x] /\ back'[x] = back[x]
        /\ upto'[x] = reach[x] /\ since[x] \in Nat
    <3> HIDE DEF reach
    <3> QED
      BY <1>1, <1>2, <1>7, <1>14 DEF LimitsTyped
  <2>3. CASE x \in gone
    <3>1. mBuckets'[x] = NoBucket /\ upto'[x] = now
      BY <1>2, <1>14, <2>2, <2>3
    <3>2. ~Known(x)'
      BY <3>1 DEF Known
    <3>3. ~Leaky(x)' => granted'[x] + Burst[x] <= Allowance(x, upto[x], back[x])'
      BY <1>12, <2>2, <2>3, <3>1 DEF Allowance
    <3>4. Burst[x] \in Nat /\ granted'[x] \in Nat /\ now' \in Nat /\ Rate[x] \in Nat
      BY <1>9, GuardAssumption DEF LimitsTyped
    <3>5. Known(x) /\ since[x] # 0
      BY <1>4, <2>1, <2>3 DEF KeyPart
    <3>6. Allowance(x, upto[x], back[x])' \in Int
      <4> DEFINE a == upto'[x] - since'[x] + back'[x]
      <4>1. a \in Int
        BY <1>9 DEF LimitsTyped
      <4>2. Rate[x] * a \in Int
        <5> HIDE DEF a
        <5> QED
          BY <3>4, <4>1, TimesSum
      <4> QED
        BY <3>4, <4>2 DEF Allowance
    <3> DEFINE w == Allowance(x, upto[x], back[x])'
    <3> HIDE DEF w
    <3>7. ~Leaky(x)' => granted'[x] <= w /\ granted'[x] + Burst[x] <= w
      BY <3>3, <3>4, <3>6 DEF w
    <3>8. /\ upto'[x] <= now' /\ mBuckets'[x].tokens <= Burst[x] /\ ~(mBuckets'[x].tokens < 0)
          /\ since'[x] # 0
      BY <2>2, <3>1, <3>4, <3>5 DEF NoBucket
    <3> QED
      BY <3>2, <3>7, <3>8 DEF KeyPart, w
  <2>4. CASE x \notin gone
    <3>1. mBuckets'[x] = mBuckets[x] /\ upto'[x] = upto[x]
      BY <1>2, <1>14, <2>2, <2>4
    <3>2. Known(x)' <=> Known(x)
      BY <3>1 DEF Known
    <3>3. Allowance(x, upto[x], back[x])' = Allowance(x, upto[x], back[x])
      BY <2>2, <3>1 DEF Allowance
    <3> QED
      BY <1>13, <2>1, <2>2, <3>1, <3>2, <3>3 DEF KeyPart
  <2> QED
    BY <2>3, <2>4
<1>15. KeyPart(k)'
  <2>1. /\ KeyPart(k) /\ mBuckets[k].tokens \in Int /\ mBuckets[k].last \in Nat
        /\ granted[k] \in Nat /\ since[k] \in Nat /\ upto[k] \in Nat /\ back[k] \in Nat
    BY <1>1 DEF LimitsTyped
  <2>2. /\ reach[k] \in Nat /\ upto[k] <= reach[k]
        /\ k \notin gone => reach[k] = upto[k]
        /\ k \in gone => reach[k] = now
    BY <1>7
  <2>3. /\ mBuckets'[k] = bucket /\ upto'[k] = t
        /\ granted'[k] = granted[k] + have - left
        /\ since'[k] = IF since[k] = 0 THEN t ELSE since[k]
        /\ back'[k] = IF t < reach[k] THEN back[k] + reach[k] - t ELSE back[k]
    <3> HIDE DEF reach, have, left, bucket
    <3> QED
      BY <1>1, <1>2, <1>7 DEF LimitsTyped
  <2>4. Known(k)' /\ mBuckets'[k].last = upto'[k] /\ mBuckets'[k].tokens = left
    <3>1. bucket.last = t /\ bucket.tokens = left /\ bucket # NoBucket
      BY <1>3 DEF NoBucket
    <3> QED
      BY <2>3, <3>1 DEF Known
  <2>5. since'[k] # 0
    BY <1>3, <2>3
  <2>6. have >= 0 => left >= 0
    <3> HIDE DEF have
    <3> QED
      BY <1>5, <1>6
  <2>7. kept => /\ have = Refilled(k, p, t) /\ reach[k] = mBuckets[k].last /\ k \notin gone
                /\ since[k] # 0
    BY <2>1, <2>2 DEF KeyPart
  <2>8. left < 0 => back'[k] # 0
    <3> SUFFICES ASSUME left < 0 PROVE back'[k] # 0
      OBVIOUS
    <3>1. have < 0
      <4> HIDE DEF have, left
      <4> QED
        BY <1>6, <2>6
    <3>2. kept
      BY <1>5, <3>1
    <3>3. CASE mBuckets[k].tokens < 0
      BY <1>10, <2>1, <3>3 DEF KeyPart
    <3>4. CASE ~(mBuckets[k].tokens < 0)
      <4>1. ~(mBuckets[k].last <= t)
        <5> HIDE DEF have
        <5> QED
          BY <1>1, <1>3, <1>6, <2>1, <2>7, <3>1, <3>2, <3>4, RefilledBounds
      <4> HIDE DEF reach, have, left, kept
      <4> QED
        BY <1>3, <2>1, <2>3, <2>7, <3>2, <4>1
    <3> QED
      BY <3>3, <3>4
  <2> DEFINE a0 == upto[k] - since[k] + back[k]
             a1 == reach[k] - since[k] + back[k]
             a2 == t - since[k] + back'[k]
             d == t - reach[k]
  <2>9. /\ a0 \in Int /\ a1 \in Int /\ a2 \in Int /\ d \in Int
        /\ a0 <= a1 /\ a1 <= a2
        /\ a2 = IF d >= 0 THEN a1 + d ELSE a1
    <3> HIDE DEF reach
    <3> QED
      BY <1>3, <2>1, <2>2, <2>3
  <2> DEFINE r0 == Rate[k] * a0
             r1 == Rate[k] * a1
             r2 == Rate[k] * a2
             rd == Rate[k] * d
  <2>10. /\ r0 \in Int /\ r1 \in Int /\ r2 \in Int /\ rd \in Int
         /\ r0 <= r1 /\ r1 <= r2
         /\ d >= 0 => r2 = r1 + rd
         /\ d < 0 => r2 = r1
    <3> HIDE DEF a0, a1, a2, d
    <3>1. r0 <= r1 /\ r1 <= r2
      BY <1>5, <2>9, TimesMore
    <3>2. /\ r0 \in Int /\ r1 \in Int /\ r2 \in Int /\ rd \in Int
          /\ d >= 0 => r2 = r1 + rd
      BY <1>5, <2>9, TimesSum
    <3> QED
      BY <2>9, <3>1, <3>2
  <2>11. since[k] # 0 => Allowance(k, upto[k], back[k])' = Burst[k] + r2
    BY <2>3 DEF Allowance
  <2>12. /\ Allowance(k, upto[k], back[k]) = Burst[k] + r0
         /\ k \notin gone => Allowance(k, upto[k], back[k]) = Burst[k] + r1
         /\ k \in gone => Allowance(k, now, back[k]) = Burst[k] + r1
    BY <2>2 DEF Allowance
  <2>13. ASSUME ~Leaky(k)', since[k] # 0
         PROVE  granted[k] + have <= Burst[k] + r2 /\ granted[k] <= Burst[k] + r2
    <3>1. ~Leaky(k)
      BY <1>13, <2>13
    <3>2. granted[k] <= Burst[k] + r0
      BY <2>1, <2>12, <2>13, <3>1 DEF KeyPart
    <3>3. CASE kept
      <4>1. granted[k] + mBuckets[k].tokens <= Burst[k] + r1
        <5>1. Known(k) /\ k \notin gone
          BY <3>3
        <5> HIDE DEF r1, r0
        <5> QED
          BY <2>1, <2>12, <2>13, <3>1, <5>1 DEF KeyPart
      <4>2. /\ d < 0 => have <= mBuckets[k].tokens
            /\ d >= 0 => have <= mBuckets[k].tokens + rd
        <5>1. d = t - mBuckets[k].last /\ have = Refilled(k, p, t)
          BY <2>7, <3>3
        <5> HIDE DEF d, have, kept, reach
        <5> QED
          BY <1>1, <1>3, <2>1, <5>1, RefilledBounds
      <4> HIDE DEF d, r0, r1, r2, rd, have, kept
      <4> QED
        BY <1>5, <1>6, <2>1, <2>9, <2>10, <3>2, <4>1, <4>2
    <3>4. CASE ~kept
      <4>1. have = Burst[k]
        BY <3>4
      <4>2. granted[k] + Burst[k] <= Burst[k] + r1
        <5>1. CASE k \in gone
          <6> HIDE DEF r0, r1, gone
          <6> QED
            BY <1>12, <2>12, <2>13, <5>1
        <5>2. CASE k \notin gone
          <6>1. ~Known(k)
            BY <3>4, <5>2
          <6> HIDE DEF r0, r1, gone
          <6> QED
            BY <2>1, <2>12, <2>13, <3>1, <5>2, <6>1 DEF KeyPart
        <5> QED
          BY <5>1, <5>2
      <4> HIDE DEF d, r0, r1, r2, rd, have, kept
      <4> QED
        BY <1>5, <2>1, <2>10, <3>2, <4>1, <4>2
    <3> QED
      BY <3>3, <3>4
  <2>14. ASSUME since[k] = 0
         PROVE  /\ granted[k] = 0 /\ have = Burst[k]
                /\ Allowance(k, upto[k], back[k])' = Burst[k]
    <3>1. ~Known(k) /\ granted[k] = 0 /\ back[k] = 0 /\ upto[k] = 0
      BY <2>1, <2>14 DEF KeyPart
    <3>2. k \notin gone /\ have = Burst[k]
      BY <1>4, <3>1
    <3>3. back'[k] = 0 /\ since'[k] = t /\ upto'[k] = t
      <4> HIDE DEF reach
      <4> QED
        BY <1>3, <2>2, <2>3, <2>14, <3>1, <3>2
    <3>4. Rate[k] * (t - t + 0) = 0
      BY <1>3, <1>5
    <3> QED
      BY <1>5, <3>1, <3>2, <3>3, <3>4 DEF Allowance
  <2> DEFINE w == Allowance(k, upto[k], back[k])'
  <2>15. ~Leaky(k)' => granted'[k] <= w /\ granted'[k] + left <= w
    <3>1. CASE since[k] = 0
      <4> HIDE DEF have, left, w
      <4>1. w = Burst[k] /\ granted[k] = 0 /\ have = Burst[k]
        BY <2>14, <3>1 DEF w
      <4> QED
        BY <1>5, <1>6, <2>3, <2>6, <4>1
    <3>2. CASE since[k] # 0
      <4>1. have # left => left >= 0
        <5> HIDE DEF have
        <5> QED
          BY <1>5, <1>6
      <4>2. w = Burst[k] + r2
        BY <2>11, <3>2
      <4> HIDE DEF have, left, w, r2
      <4> QED
        BY <1>5, <1>6, <2>1, <2>3, <2>10, <2>13, <3>2, <4>1, <4>2
    <3> QED
      BY <3>1, <3>2
  <2> HIDE DEF w, left, have
  <2>16. upto'[k] <= now' /\ mBuckets'[k].tokens <= Burst[k]
    BY <1>3, <1>5, <1>6, <2>3, <2>4
  <2>17. mBuckets'[k].tokens < 0 => back'[k] # 0
    BY <2>4, <2>8
  <2>18. ~Leaky(k)' => granted'[k] <= w /\ granted'[k] + mBuckets'[k].tokens <= w
    BY <2>4, <2>15
  <2> QED
    BY <2>4, <2>5, <2>16, <2>17, <2>18 DEF KeyPart, w
<1> QED
  BY <1>9, <1>11, <1>14, <1>15 DEF LimitsInv

LEMMA LimitsInit == Init => LimitsInv
<1> SUFFICES ASSUME Init PROVE LimitsInv
  OBVIOUS
<1>1. /\ now = 1 /\ mBuckets = [k \in Keys |-> NoBucket]
      /\ granted = [k \in Keys |-> 0] /\ since = [k \in Keys |-> 0]
      /\ upto = [k \in Keys |-> 0] /\ back = [k \in Keys |-> 0] /\ leaked = {}
  BY DEF Init, GuardInit
<1>2. LimitsTyped /\ LeakedPart
  BY <1>1 DEF LimitsTyped, LeakedPart, NoBucket
<1>3. \A k \in Keys : KeyPart(k)
  BY <1>1, GuardAssumption DEF KeyPart, Known, NoBucket
<1> QED
  BY <1>2, <1>3 DEF LimitsInv

LEMMA LimitsStep == LimitsInv /\ [Next]_vars => LimitsInv'
<1> SUFFICES ASSUME LimitsInv, [Next]_vars PROVE LimitsInv'
  OBVIOUS
<1>1. ASSUME UNCHANGED limits, now' = now \/ (now \in Nat /\ now' = now + 1)
      PROVE  LimitsInv'
  <2>1. LimitsTyped' /\ LeakedPart'
    BY <1>1 DEF LimitsInv, LimitsTyped, LeakedPart, limits
  <2>2. ASSUME NEW k \in Keys PROVE KeyPart(k)'
    <3>1. /\ KeyPart(k) /\ upto[k] \in Nat /\ now \in Nat /\ upto'[k] = upto[k]
      BY <1>1 DEF LimitsInv, LimitsTyped, limits
    <3>2. upto'[k] <= now'
      BY <1>1, <3>1 DEF KeyPart
    <3> QED
      BY <1>1, <3>1, <3>2 DEF KeyPart, Leaky, Known, Allowance, limits
  <2> QED
    BY <2>1, <2>2 DEF LimitsInv
<1>2. CASE UNCHANGED <<limits, now>>
  BY <1>1, <1>2
<1>3. CASE RateStep
  <2>1. CASE Tick
    BY <1>1, <2>1 DEF Tick, LimitsInv, LimitsTyped
  <2>2. CASE Call
    <3>1. now' = now
      BY <2>2 DEF Call
    <3>2. CASE UNCHANGED limits
      BY <1>2, <3>1, <3>2
    <3>3. CASE \E k \in Keys, p \in {1, Penalty}, t \in Readings : Allow(k, p, t)
      <4>1. {1, Penalty} \subseteq Nat \ {0}
        BY GuardAssumption
      <4> QED
        BY <3>1, <3>3, <4>1, AllowKeeps
    <3>4. CASE \E a \in Actors, q \in Kinds, t \in Readings : Record(a, q, t)
      <4>1. PICK a \in Actors, q \in Kinds, t \in Readings : Record(a, q, t)
        BY <3>4, Zenon
      <4>2. UNCHANGED limits
        BY <4>1, Zenon DEF Record
      <4> QED
        BY <3>2, <4>2
    <3>5. CASE \E t \in Readings : TrafficHit(t)
      BY <3>2, <3>5 DEF TrafficHit
    <3> QED
      BY <2>2, <3>3, <3>4, <3>5, Zenon DEF Call
  <2> QED
    BY <1>3, <2>1, <2>2 DEF RateStep, GuardNext
<1> QED
  BY <1>2, <1>3 DEF Next, RequestStep, ConnectionStep, vars, guardVars

(* Whatever callers, rates, sizes and penalties, and however late the      *)
(* readings of the clock: no caller is granted more than its burst and     *)
(* what the rate gives since its first call, the time counted twice that   *)
(* late readings went back over, unless prune() dropped its bucket before  *)
(* it was full, for a caller of a smaller bucket or after such a reading   *)
(* (ratelimit.h, allow and prune).                                         *)
THEOREM RatesHeld == Spec => []RateHeld
<1>1. LimitsInv => RateHeld
  <2> SUFFICES ASSUME LimitsInv PROVE RateHeld
    OBVIOUS
  <2>1. ASSUME NEW k \in Keys, since[k] # 0, \A x \in leaked : x[1] # k
        PROVE  granted[k] <= Burst[k] + Rate[k] * (now - since[k] + back[k])
    <3> DEFINE a == upto[k] - since[k] + back[k]
               b == now - since[k] + back[k]
    <3>1. granted[k] <= Burst[k] + Rate[k] * a /\ upto[k] <= now
      BY <2>1 DEF LimitsInv, KeyPart, Leaky, Allowance
    <3>2. /\ now \in Nat /\ upto[k] \in Nat /\ since[k] \in Nat /\ back[k] \in Nat
          /\ granted[k] \in Nat
      BY DEF LimitsInv, LimitsTyped
    <3>3. a \in Int /\ b \in Int /\ a <= b
      BY <3>1, <3>2
    <3>4. Rate[k] \in Nat /\ Burst[k] \in Nat
      BY GuardAssumption
    <3> DEFINE ra == Rate[k] * a
               rb == Rate[k] * b
    <3>5. ra \in Int /\ rb \in Int /\ ra <= rb
      <4> HIDE DEF a, b
      <4> QED
        BY <3>3, <3>4, TimesMore, TimesSum
    <3>6. granted[k] <= Burst[k] + rb
      <4> HIDE DEF ra, rb
      <4> QED
        BY <3>1, <3>2, <3>4, <3>5 DEF ra
    <3> QED
      BY <3>6
  <2>2. LeakedPart
    BY DEF LimitsInv
  <2> QED
    BY <2>1, <2>2 DEF RateHeld, LeakedPart
<1> QED
  BY <1>1, LimitsInit, LimitsStep, PTL DEF Spec

(***************************************************************************)
(* Folds.  The library's induction takes a predicate, these take a set.    *)
(***************************************************************************)
(* Induction over the subsets of a finite set, as a fact about sets. *)
LEMMA FiniteInduction ==
    ASSUME NEW S, IsFiniteSet(S), NEW G,
           \A s \in SUBSET S : (\A u \in SUBSET s : u # s => u \in G) => s \in G
    PROVE  \A s \in SUBSET S : s \in G
<1> DEFINE R == StrictSubsetOrdering(S)
           T == (SUBSET S) \ G
<1>1. IsWellFoundedOn(R, SUBSET S)
  BY FS_StrictSubsetOrderingWellFounded, FS_FiniteSubsetsOfFinite
<1> SUFFICES ASSUME T # {} PROVE FALSE
  OBVIOUS
<1>2. PICK x \in T : \A y \in T : ~(<<y, x>> \in R)
  <2>1. T \subseteq SUBSET S
    OBVIOUS
  <2> HIDE DEF R, T
  <2> QED
    BY <1>1, <2>1, WFMin
<1>3. \A u \in SUBSET x : u # x => u \in G
  BY <1>2 DEF StrictSubsetOrdering
<1> QED
  BY <1>2, <1>3

(* g folds step over the subsets of T, an element after the other. *)
FoldsOver(g, T, choose, step, base) ==
    \A s \in SUBSET T :
        g[s] = IF s = {} THEN base ELSE step[<<choose[s], g[s \ {choose[s]}]>>]

LEMMA FoldUnique ==
    ASSUME NEW S, IsFiniteSet(S), NEW choose, NEW step, NEW base,
           \A s \in SUBSET S : s # {} => choose[s] \in s,
           NEW T \in SUBSET S, NEW U \in SUBSET S, NEW g, NEW h,
           FoldsOver(g, T, choose, step, base), FoldsOver(h, U, choose, step, base)
    PROVE  \A s \in SUBSET S : s \subseteq T /\ s \subseteq U => g[s] = h[s]
<1> DEFINE G == {s \in SUBSET S : s \subseteq T /\ s \subseteq U => g[s] = h[s]}
<1>1. ASSUME NEW s \in SUBSET S, \A u \in SUBSET s : u # s => u \in G
      PROVE  s \in G
  <2> SUFFICES ASSUME s \subseteq T, s \subseteq U PROVE g[s] = h[s]
    OBVIOUS
  <2>1. CASE s = {}
    BY <2>1 DEF FoldsOver
  <2>2. CASE s # {}
    <3> DEFINE rest == s \ {choose[s]}
    <3>1. choose[s] \in s
      BY <2>2
    <3>2. rest \in G
      BY <3>1, <1>1
    <3>3. g[rest] = h[rest]
      BY <3>2
    <3>4. g[s] = step[<<choose[s], g[rest]>>] /\ h[s] = step[<<choose[s], h[rest]>>]
      BY <2>2 DEF FoldsOver
    <3> QED
      BY <3>3, <3>4
  <2> QED
    BY <2>1, <2>2
<1> HIDE DEF G
<1>2. \A s \in SUBSET S : s \in G
  BY <1>1, FiniteInduction
<1> QED
  BY <1>2 DEF G

(* The fold over a finite set exists, and stays in D if every step does. *)
LEMMA FoldExists ==
    ASSUME NEW S, IsFiniteSet(S), NEW choose, NEW step, NEW D, NEW base \in D,
           \A s \in SUBSET S : s # {} => choose[s] \in s,
           \A x \in S, d \in D : step[<<x, d>>] \in D
    PROVE  \E g : FoldsOver(g, S, choose, step, base) /\ g \in [SUBSET S -> D]
<1> DEFINE fold(T) == CHOOSE g : FoldsOver(g, T, choose, step, base)
           G == {T \in SUBSET S : \E g : FoldsOver(g, T, choose, step, base)}
<1>1. ASSUME NEW T \in SUBSET S, \A u \in SUBSET T : u # T => u \in G
      PROVE  T \in G
  <2> DEFINE h == [s \in SUBSET T |->
                     IF s = {} THEN base
                     ELSE step[<<choose[s], fold(s \ {choose[s]})[s \ {choose[s]}]>>]]
  <2>1. ASSUME NEW u \in SUBSET S, u \in G
        PROVE  FoldsOver(fold(u), u, choose, step, base)
    BY <2>1
  <2>2. ASSUME NEW s \in SUBSET T, s # T PROVE h[s] = fold(s)[s]
    <3>1. FoldsOver(fold(s), s, choose, step, base)
      BY <2>2, <1>1, <2>1
    <3>2. CASE s = {}
      BY <3>1, <3>2 DEF FoldsOver
    <3>3. CASE s # {}
      <4> DEFINE rest == s \ {choose[s]}
      <4>1. rest \in SUBSET s /\ rest \in SUBSET S /\ rest # T
        BY <3>3, <2>2
      <4>2. FoldsOver(fold(rest), rest, choose, step, base)
        BY <4>1, <1>1, <2>1
      <4>3. fold(s)[s] = step[<<choose[s], fold(s)[rest]>>]
        BY <3>1, <3>3 DEF FoldsOver
      <4> HIDE DEF rest, fold, G
      <4>4. fold(s)[rest] = fold(rest)[rest]
        BY <3>1, <4>1, <4>2, FoldUnique
      <4>5. h[s] = step[<<choose[s], fold(rest)[rest]>>]
        BY <3>3 DEF rest
      <4> QED
        BY <4>3, <4>4, <4>5
    <3> QED
      BY <3>2, <3>3
  <2>3. FoldsOver(h, T, choose, step, base)
    <3>1. h[{}] = base
      OBVIOUS
    <3>2. ASSUME NEW s \in SUBSET T, s # {}
          PROVE  h[s] = step[<<choose[s], h[s \ {choose[s]}]>>]
      <4>1. s \ {choose[s]} # T /\ s \ {choose[s]} \in SUBSET T
        BY <3>2
      <4>2. h[s \ {choose[s]}] = fold(s \ {choose[s]})[s \ {choose[s]}]
        BY <4>1, <2>2
      <4>3. h[s] = step[<<choose[s], fold(s \ {choose[s]})[s \ {choose[s]}]>>]
        BY <3>2
      <4> QED
        BY <4>2, <4>3
    <3> HIDE DEF h
    <3> QED
      BY <3>1, <3>2 DEF FoldsOver
  <2> HIDE DEF h
  <2> QED
    BY <2>3
<1> HIDE DEF G
<1>2. \A T \in SUBSET S : T \in G
  BY <1>1, FiniteInduction
<1>3. PICK g : FoldsOver(g, S, choose, step, base)
  BY <1>2 DEF G
<1> DEFINE H == {s \in SUBSET S : g[s] \in D}
<1>4. ASSUME NEW s \in SUBSET S, \A u \in SUBSET s : u # s => u \in H
      PROVE  s \in H
  <2>1. CASE s = {}
    BY <1>3, <2>1 DEF FoldsOver
  <2>2. CASE s # {}
    <3>1. choose[s] \in s /\ s \ {choose[s]} \in H
      BY <2>2, <1>4
    <3>2. g[s] = step[<<choose[s], g[s \ {choose[s]}]>>]
      BY <1>3, <2>2 DEF FoldsOver
    <3> QED
      BY <3>1, <3>2
  <2> QED
    BY <2>1, <2>2
<1> HIDE DEF H
<1>5. \A s \in SUBSET S : s \in H
  BY <1>4, FiniteInduction
<1> DEFINE k == [s \in SUBSET S |-> g[s]]
<1>6. k \in [SUBSET S -> D]
  BY <1>5 DEF H
<1>7. FoldsOver(k, S, choose, step, base)
  <2>1. \A s \in SUBSET S : k[s] = g[s] /\ k[s \ {choose[s]}] = g[s \ {choose[s]}]
    OBVIOUS
  <2> HIDE DEF k
  <2> QED
    BY <1>3, <2>1 DEF FoldsOver
<1> HIDE DEF k
<1> QED
  BY <1>6, <1>7

(***************************************************************************)
(* Sums.                                                                   *)
(***************************************************************************)
Some(S) == [s \in SUBSET S |-> CHOOSE x \in s : TRUE]

(* it[s] is the sum of f over a subset s of S. *)
Totals(it, f, S) ==
    /\ it \in [SUBSET S -> Nat] /\ it[{}] = 0
    /\ \A s \in SUBSET S : s # {} =>
         Some(S)[s] \in s /\ it[s] = f[Some(S)[s]] + it[s \ {Some(S)[s]}]

Total(f) == FoldFunction(+, 0, f)

LEMMA FoldTotals ==
    ASSUME NEW S, IsFiniteSet(S), NEW f \in [S -> Nat]
    PROVE  \E it : Totals(it, f, S) /\ Total(f) = it[S]
<1> DEFINE step == [p \in S \X Nat |-> f[p[1]] + p[2]]
           choose == Some(S)
<1>1. \A s \in SUBSET S : s # {} => choose[s] \in s
  BY DEF Some
<1>2. PICK g : FoldsOver(g, S, choose, step, 0) /\ g \in [SUBSET S -> Nat]
  <2>1. \A x \in S, n \in Nat : step[<<x, n>>] \in Nat
    OBVIOUS
  <2> HIDE DEF step, choose
  <2> QED
    BY <1>1, <2>1, FoldExists
<1>3. \A s \in SUBSET S : s # {} => g[s] = f[choose[s]] + g[s \ {choose[s]}]
  <2> SUFFICES ASSUME NEW s \in SUBSET S, s # {}
               PROVE  g[s] = f[choose[s]] + g[s \ {choose[s]}]
    OBVIOUS
  <2>1. g[s] = step[<<choose[s], g[s \ {choose[s]}]>>]
    BY <1>2 DEF FoldsOver
  <2>2. g[s \ {choose[s]}] \in Nat /\ choose[s] \in S
    BY <1>2, <1>1
  <2> HIDE DEF choose
  <2> QED
    BY <2>1, <2>2
<1>4. g[{}] = 0
  BY <1>2 DEF FoldsOver
<1> DEFINE Iterates(i) ==
             i = [s \in SUBSET S |-> IF s = {} THEN 0
                    ELSE f[CHOOSE x \in s : TRUE] + i[s \ {CHOOSE x \in s : TRUE}]]
           it == CHOOSE i : Iterates(i)
<1>5. Iterates(g)
  <2>1. ASSUME NEW s \in SUBSET S, s # {}
        PROVE  g[s] = f[CHOOSE x \in s : TRUE] + g[s \ {CHOOSE x \in s : TRUE}]
    <3>1. choose[s] = CHOOSE x \in s : TRUE
      BY DEF Some
    <3> HIDE DEF choose
    <3> QED
      BY <1>3, <2>1, <3>1
  <2>2. g = [s \in SUBSET S |-> g[s]]
    BY <1>2
  <2> QED
    BY <1>4, <2>1, <2>2
<1>6. Iterates(it)
  <2> HIDE DEF Iterates
  <2> QED
    BY <1>5, Zenon
<1>7. Total(f) = it[DOMAIN f] /\ DOMAIN f = S
  <2>1. Total(f) = it[DOMAIN f]
    BY Zenon DEF Total, FoldFunction, FoldFunctionOnSet, MapThenFoldSet
  <2> QED
    BY <2>1
<1> HIDE DEF it
<1> DEFINE G == {s \in SUBSET S : it[s] = g[s]}
<1>8. ASSUME NEW s \in SUBSET S, \A u \in SUBSET s : u # s => u \in G
      PROVE  s \in G
  <2>1. CASE s = {}
    BY <2>1, <1>4, <1>6
  <2>2. CASE s # {}
    <3>1. choose[s] \in s /\ s \ {choose[s]} \in G /\ choose[s] = CHOOSE x \in s : TRUE
      BY <1>1, <2>2, <1>8 DEF Some
    <3>2. g[s] = f[choose[s]] + g[s \ {choose[s]}]
      BY <1>3, <2>2
    <3>3. it[s] = f[choose[s]] + it[s \ {choose[s]}]
      BY <1>6, <2>2, <3>1
    <3> QED
      BY <3>1, <3>2, <3>3
  <2> QED
    BY <2>1, <2>2
<1> HIDE DEF G
<1>9. \A s \in SUBSET S : s \in G
  BY <1>8, FiniteInduction
<1>10. Total(f) = g[S]
  BY <1>7, <1>9 DEF G
<1> HIDE DEF choose
<1> QED
  BY <1>1, <1>2, <1>3, <1>4, <1>10 DEF choose, Totals

(* A sum may be taken from any element first. *)
LEMMA TotalFrom ==
    ASSUME NEW S, IsFiniteSet(S), NEW f \in [S -> Nat], NEW it, Totals(it, f, S)
    PROVE  \A s \in SUBSET S : \A x \in s : it[s] = f[x] + it[s \ {x}]
<1> DEFINE G == {s \in SUBSET S : \A x \in s : it[s] = f[x] + it[s \ {x}]}
<1>1. ASSUME NEW s \in SUBSET S, \A u \in SUBSET s : u # s => u \in G
      PROVE  s \in G
  <2> SUFFICES ASSUME NEW x \in s PROVE it[s] = f[x] + it[s \ {x}]
    OBVIOUS
  <2> DEFINE c == Some(S)[s]
             rest == s \ {c, x}
  <2>1. c \in s /\ it[s] = f[c] + it[s \ {c}]
    BY DEF Totals
  <2> HIDE DEF c
  <2>2. CASE x = c
    BY <2>1, <2>2
  <2>3. CASE x # c
    <3>1. s \ {c} \in G /\ s \ {x} \in G
      BY <1>1, <2>1
    <3>2. (s \ {c}) \ {x} = rest /\ (s \ {x}) \ {c} = rest /\ x \in s \ {c} /\ c \in s \ {x}
      BY <2>1, <2>3
    <3>3. it[s \ {c}] = f[x] + it[rest] /\ it[s \ {x}] = f[c] + it[rest]
      BY <3>1, <3>2
    <3>4. it[rest] \in Nat /\ f[x] \in Nat /\ f[c] \in Nat
      BY <2>1 DEF Totals
    <3> QED
      BY <2>1, <3>3, <3>4
  <2> QED
    BY <2>2, <2>3
<1> HIDE DEF G
<1>2. \A s \in SUBSET S : s \in G
  BY <1>1, FiniteInduction
<1> QED
  BY <1>2 DEF G

(* A sum whose terms other than zero have as large a term of their own in  *)
(* another sum is at most that one.                                        *)
LEMMA SumAtMost ==
    ASSUME NEW S, IsFiniteSet(S), NEW f \in [S -> Nat],
           NEW T, IsFiniteSet(T), NEW g \in [T -> Nat], NEW to,
           \A x \in S : f[x] # 0 => to[x] \in T /\ f[x] <= g[to[x]],
           \A x, y \in S : f[x] # 0 /\ f[y] # 0 /\ to[x] = to[y] => x = y
    PROVE  Total(f) <= Total(g)
<1>1. PICK a : Totals(a, f, S) /\ Total(f) = a[S]
  BY FoldTotals
<1>2. PICK b : Totals(b, g, T) /\ Total(g) = b[T]
  BY FoldTotals
<1>3. ASSUME NEW s \in SUBSET S, NEW x \in s PROVE a[s] = f[x] + a[s \ {x}]
  <2>1. Totals(a, f, S)
    BY <1>1
  <2> QED
    BY <2>1, TotalFrom, SMTT(20)
<1>4. ASSUME NEW u \in SUBSET T, NEW y \in u PROVE b[u] = g[y] + b[u \ {y}]
  <2>1. Totals(b, g, T)
    BY <1>2
  <2> QED
    BY <2>1, TotalFrom, SMTT(20)
<1> DEFINE Into(s, u) == \A x \in s : f[x] # 0 => to[x] \in u
           G == {s \in SUBSET S : \A u \in SUBSET T : Into(s, u) => a[s] <= b[u]}
<1>5. ASSUME NEW s \in SUBSET S, \A u \in SUBSET s : u # s => u \in G
      PROVE  s \in G
  <2> SUFFICES ASSUME NEW u \in SUBSET T, Into(s, u) PROVE a[s] <= b[u]
    OBVIOUS
  <2>1. a[s] \in Nat /\ b[u] \in Nat
    BY <1>1, <1>2 DEF Totals
  <2>2. CASE s = {}
    <3>1. a[s] = 0
      BY <1>1, <2>2 DEF Totals
    <3> QED
      BY <2>1, <3>1
  <2>3. CASE s # {}
    <3>1. PICK x \in s : a[s] = f[x] + a[s \ {x}]
      <4>1. \A x \in s : a[s] = f[x] + a[s \ {x}]
        BY <1>3
      <4> QED
        BY <2>3, <4>1
    <3>2. s \ {x} \in G /\ f[x] \in Nat /\ a[s \ {x}] \in Nat
      BY <1>1, <1>5 DEF Totals
    <3>3. CASE f[x] = 0
      <4>1. Into(s \ {x}, u)
        OBVIOUS
      <4>2. a[s \ {x}] <= b[u]
        BY <3>2, <4>1
      <4> QED
        BY <3>1, <3>2, <3>3, <4>2
    <3>4. CASE f[x] # 0
      <4> DEFINE y == to[x]
      <4>1. y \in u /\ f[x] <= g[y] /\ g[y] \in Nat
        BY <3>4
      <4>2. Into(s \ {x}, u \ {y})
        BY <3>4
      <4>3. a[s \ {x}] <= b[u \ {y}]
        BY <3>2, <4>2
      <4>4. b[u] = g[y] + b[u \ {y}] /\ b[u \ {y}] \in Nat
        <5>1. \A x1 \in u : b[u] = g[x1] + b[u \ {x1}]
          BY <1>4
        <5>2. b[u \ {y}] \in Nat
          BY <1>2 DEF Totals
        <5> QED
          BY <4>1, <5>1, <5>2
      <4> HIDE DEF y
      <4> QED
        BY <3>1, <3>2, <4>1, <4>3, <4>4
    <3> QED
      BY <3>3, <3>4
  <2> QED
    BY <2>2, <2>3
<1> HIDE DEF G
<1>6. S \in G
  BY <1>5, FiniteInduction
<1> QED
  BY <1>1, <1>2, <1>6 DEF G

LEMMA SumNat ==
    ASSUME NEW S, IsFiniteSet(S), NEW f \in [S -> Nat]
    PROVE  Total(f) \in Nat
<1>1. PICK a : Totals(a, f, S) /\ Total(f) = a[S]
  BY FoldTotals
<1> QED
  BY <1>1 DEF Totals

LEMMA SumZero ==
    ASSUME NEW S, IsFiniteSet(S), NEW f \in [S -> Nat], \A x \in S : f[x] = 0
    PROVE  Total(f) = 0
<1>1. PICK a : Totals(a, f, S) /\ Total(f) = a[S]
  BY FoldTotals
<1> DEFINE G == {s \in SUBSET S : a[s] = 0}
<1>2. ASSUME NEW s \in SUBSET S, \A u \in SUBSET s : u # s => u \in G
      PROVE  s \in G
  <2>1. CASE s = {}
    BY <1>1, <2>1 DEF Totals
  <2>2. CASE s # {}
    <3>1. Some(S)[s] \in s /\ a[s] = f[Some(S)[s]] + a[s \ {Some(S)[s]}]
      BY <1>1, <2>2 DEF Totals
    <3>2. s \ {Some(S)[s]} \in G
      BY <1>2, <3>1
    <3> QED
      BY <3>1, <3>2
  <2> QED
    BY <2>1, <2>2
<1> HIDE DEF G
<1>3. S \in G
  BY <1>2, FiniteInduction
<1> QED
  BY <1>1, <1>3 DEF G

(***************************************************************************)
(* Folds over sequences.                                                   *)
(***************************************************************************)
LEMMA LargestElement ==
    ASSUME NEW S, IsFiniteSet(S), S \subseteq Nat
    PROVE  \A s \in SUBSET S : s # {} => Max(s) \in s /\ \A y \in s : Max(s) >= y
<1> DEFINE G == {s \in SUBSET S : s # {} => \E x \in s : \A y \in s : x >= y}
<1>1. ASSUME NEW s \in SUBSET S, \A u \in SUBSET s : u # s => u \in G, s # {}
      PROVE  s \in G
  <2>1. PICK x \in s : TRUE
    BY <1>1
  <2>2. s \ {x} \in G
    BY <1>1
  <2>3. CASE s \ {x} = {}
    BY <2>3
  <2>4. CASE s \ {x} # {}
    <3>1. PICK z \in s \ {x} : \A y \in s \ {x} : z >= y
      BY <2>2, <2>4
    <3>2. CASE z >= x
      BY <3>1, <3>2
    <3>3. CASE ~(z >= x)
      <4>1. \A y \in s : x >= y
        BY <3>1, <3>3
      <4> QED
        BY <4>1
    <3> QED
      BY <3>2, <3>3
  <2> QED
    BY <2>3, <2>4
<1>2. {} \in G
  OBVIOUS
<1> HIDE DEF G
<1>3. \A s \in SUBSET S : s \in G
  <2>1. \A s \in SUBSET S : (\A u \in SUBSET s : u # s => u \in G) => s \in G
    BY <1>1, <1>2
  <2> QED
    BY <2>1, FiniteInduction
<1> QED
  BY <1>3 DEF G, Max

Judged(name, t, counted, base) ==
    FoldLeft(LAMBDA s, k : Judge(name, t, counted, s, k), base, Rules)

LEMMA JudgeKeeps ==
    ASSUME NEW name, NEW t, NEW counted, NEW D, NEW base \in D, Rules \in Seq(Kinds),
           \A s \in D, k \in Kinds : Judge(name, t, counted, s, k) \in D
    PROVE  Judged(name, t, counted, base) \in D
<1> DEFINE S == DOMAIN Rules
           step == [p \in S \X D |-> Judge(name, t, counted, p[2], Rules[p[1]])]
           choose == [s \in SUBSET S |-> Max(s)]
<1>1. IsFiniteSet(S) /\ S \subseteq Nat /\ \A i \in S : Rules[i] \in Kinds
  BY FS_Interval
<1>2. \A s \in SUBSET S : s # {} => choose[s] \in s
  <2> HIDE DEF S
  <2> QED
    BY <1>1, LargestElement
<1>3. \A x \in S, d \in D : step[<<x, d>>] = Judge(name, t, counted, d, Rules[x])
  <2> HIDE DEF S
  <2> QED
    OBVIOUS
<1>4. PICK g : FoldsOver(g, S, choose, step, base) /\ g \in [SUBSET S -> D]
  <2>1. \A x \in S, d \in D : step[<<x, d>>] \in D
    <3> HIDE DEF S, step
    <3> QED
      BY <1>1, <1>3
  <2> HIDE DEF S, step, choose
  <2> QED
    BY <1>1, <1>2, <2>1, FoldExists
<1> HIDE DEF step
<1> DEFINE Iterates(i) ==
             i = [s \in SUBSET S |-> IF s = {} THEN base
                    ELSE Judge(name, t, counted, i[s \ {Max(s)}], Rules[Max(s)])]
           it == CHOOSE i : Iterates(i)
<1>5. Iterates(g)
  <2>1. ASSUME NEW s \in SUBSET S, s # {}
        PROVE  g[s] = Judge(name, t, counted, g[s \ {Max(s)}], Rules[Max(s)])
    <3>1. choose[s] = Max(s) /\ Max(s) \in s
      BY <1>2, <2>1
    <3> HIDE DEF choose, S
    <3>2. g[s] = step[<<choose[s], g[s \ {choose[s]}]>>] /\ g[s \ {Max(s)}] \in D
      BY <1>4, <2>1 DEF FoldsOver
    <3> QED
      BY <1>3, <3>1, <3>2
  <2>2. g = [s \in SUBSET S |-> g[s]] /\ g[{}] = base
    BY <1>4 DEF FoldsOver
  <2> HIDE DEF S
  <2> QED
    BY <2>1, <2>2
<1>6. Iterates(it)
  <2> HIDE DEF Iterates
  <2> QED
    BY <1>5, Zenon
<1>7. Judged(name, t, counted, base) = it[S]
  BY Zenon DEF Judged, FoldLeft, MapThenFoldSet
<1> HIDE DEF it, S
<1> DEFINE G == {s \in SUBSET S : it[s] \in D}
<1>8. ASSUME NEW s \in SUBSET S, \A u \in SUBSET s : u # s => u \in G
      PROVE  s \in G
  <2>1. CASE s = {}
    BY <2>1, <1>6
  <2>2. CASE s # {}
    <3>1. Max(s) \in s /\ s \ {Max(s)} \in G
      BY <1>2, <2>2, <1>8
    <3>2. it[s] = Judge(name, t, counted, it[s \ {Max(s)}], Rules[Max(s)])
      BY <1>6, <2>2
    <3> QED
      BY <1>1, <3>1, <3>2
  <2> QED
    BY <2>1, <2>2
<1> HIDE DEF G
<1>9. S \in G
  BY <1>1, <1>8, FiniteInduction
<1> QED
  BY <1>7, <1>9 DEF G

(***************************************************************************)
(* The traffic counter.                                                    *)
(***************************************************************************)
Shown(x) == now - Slots < x /\ lastSec - Slots < x /\ x <= lastSec

(* There are no hits before the clock starts. *)
NoneBefore == \A x \in Int : x < 1 /\ Shown(x) => slots[x % Slots] = 0

(* Without late readings nothing was counted after the last hit. *)
TrafficInv ==
    /\ now \in Nat /\ lastSec \in Nat /\ lastSec <= now /\ late \in BOOLEAN
    /\ slots \in [0 .. Slots - 1 -> Nat] /\ hits \in [Times -> Nat]
    /\ SlotsHold /\ NoneBefore
    /\ ~late => \A x \in Times : lastSec < x => hits[x] = 0

LEMMA Quotient ==
    \A x \in Int, s \in Nat \ {0} :
        /\ x = s * (x \div s) + (x % s) /\ x \div s \in Int
        /\ x % s \in 0 .. s - 1
  BY Z3

LEMMA TimesLeast == \A s \in Nat \ {0}, a \in Int : a > 0 => s * a >= s
  BY Z3

(* Two seconds that share a slot are a whole turn apart. *)
LEMMA SlotsApart ==
    ASSUME NEW s \in Nat \ {0}, NEW x \in Int, NEW y \in Int, x < y, y - x < s
    PROVE  x % s # y % s
<1> SUFFICES ASSUME x % s = y % s PROVE FALSE
  OBVIOUS
<1> DEFINE a == x \div s
           b == y \div s
           m == x % s
<1>1. x = s * a + m /\ y = s * b + m /\ a \in Int /\ b \in Int /\ m \in Int
  BY Quotient
<1> HIDE DEF a, b, m
<1>2. s * (b - a) = y - x
  BY <1>1, Z3
<1>3. b - a > 0
  BY <1>1, <1>2, Z3
<1>4. s * (b - a) >= s
  BY <1>1, <1>3, TimesLeast
<1> QED
  BY <1>2, <1>4

LEMMA HitKeeps ==
    ASSUME TrafficInv, NEW t \in Readings, TrafficHit(t), now' = now
    PROVE  TrafficInv'
<1> DEFINE turned == IF t = lastSec THEN slots ELSE Cleared(t)
           s == t % Slots
<1>1. /\ t \in Nat /\ t \in Int /\ t # 0 /\ t <= now /\ t \in Times
      /\ now \in Nat /\ lastSec \in Nat /\ Slots \in Nat \ {0}
      /\ slots \in [0 .. Slots - 1 -> Nat] /\ hits \in [Times -> Nat]
  BY GuardAssumption DEF TrafficInv, Readings, Times
<1>2. s \in 0 .. Slots - 1
  BY <1>1, Quotient
<1>3. \A x \in Times : x \in Nat /\ x # 0
  BY GuardAssumption DEF Times
<1>4. \A x \in Int : x % Slots \in 0 .. Slots - 1
  BY <1>1, Quotient
<1>5. /\ slots' = [turned EXCEPT ![s] = @ + 1]
      /\ lastSec' = t
      /\ hits' = [hits EXCEPT ![t] = @ + 1]
      /\ late' = (late \/ t < lastSec)
  BY Zenon DEF TrafficHit
<1>6. turned \in [0 .. Slots - 1 -> Nat]
  <2>1. Cleared(t) \in [0 .. Slots - 1 -> Nat]
    BY <1>1 DEF Cleared
  <2> QED
    BY <1>1, <2>1
<1>7. /\ slots' \in [0 .. Slots - 1 -> Nat] /\ slots'[s] = turned[s] + 1
      /\ \A i \in 0 .. Slots - 1 : i # s => slots'[i] = turned[i]
  <2> HIDE DEF turned, s
  <2> QED
    BY <1>2, <1>5, <1>6
<1>8. /\ hits' \in [Times -> Nat] /\ hits'[t] = hits[t] + 1
      /\ \A x \in Times : x # t => hits'[x] = hits[x]
  BY <1>1, <1>5
<1>9. ASSUME NEW x \in Times, now - Slots < x, t - Slots < x, x <= t
      PROVE  turned[x % Slots] <= hits[x] /\ (late' \/ turned[x % Slots] = hits[x])
  <2>1. x \in Nat /\ x # 0 /\ hits[x] \in Nat /\ x % Slots \in 0 .. Slots - 1
    BY <1>1, <1>3, <1>4
  <2>2. CASE Shown(x)
    <3>1. slots[x % Slots] <= hits[x] /\ (late \/ slots[x % Slots] = hits[x])
      BY <2>2 DEF TrafficInv, SlotsHold, Shown
    <3>2. turned[x % Slots] = slots[x % Slots]
      <4>1. CASE t = lastSec
        BY <4>1
      <4>2. CASE t # lastSec
        <5>1. lastSec # 0 /\ x <= lastSec
          BY <1>1, <2>1, <2>2 DEF Shown
        <5>2. t - lastSec < Slots
          BY <1>1, <1>9, <2>1, <5>1
        <5>3. \A y \in lastSec + 1 .. t : y % Slots # x % Slots
          <6> SUFFICES ASSUME NEW y \in lastSec + 1 .. t PROVE y % Slots # x % Slots
            OBVIOUS
          <6>1. y \in Int /\ x \in Int /\ x < y /\ y - x < Slots
            BY <1>1, <1>9, <2>1, <5>1
          <6> QED
            BY <1>1, <2>1, <6>1, SlotsApart
        <5>4. ~(lastSec = 0 \/ t - lastSec >= Slots
                \/ \E y \in lastSec + 1 .. t : y % Slots = x % Slots)
          <6>1. ~(t - lastSec >= Slots)
            BY <1>1, <5>2
          <6> QED
            BY <5>1, <5>3, <6>1, Zenon
        <5>5. Cleared(t)[x % Slots] = slots[x % Slots]
          BY <2>1, <5>4, Zenon DEF Cleared
        <5> QED
          BY <4>2, <5>5
      <4> QED
        BY <4>1, <4>2
    <3> QED
      BY <1>5, <3>1, <3>2
  <2>3. CASE ~Shown(x)
    <3>1. lastSec < x
      BY <1>1, <1>9, <2>1, <2>3 DEF Shown, TrafficInv
    <3>2. x \in lastSec + 1 .. t /\ t # lastSec
      BY <1>1, <1>9, <2>1, <3>1
    <3>3. turned[x % Slots] = 0
      BY <2>1, <3>2 DEF Cleared
    <3>4. late \/ hits[x] = 0
      BY <3>1 DEF TrafficInv
    <3>5. late => late'
      BY <1>5, Zenon
    <3>6. 0 <= hits[x] /\ (late' \/ 0 = hits[x])
      BY <2>1, <3>4, <3>5
    <3> QED
      BY <3>3, <3>6
  <2> QED
    BY <2>2, <2>3
<1>10. SlotsHold'
  <2> SUFFICES ASSUME NEW x \in Times, now - Slots < x, t - Slots < x, x <= t
               PROVE  slots'[x % Slots] <= hits'[x] /\ (late' \/ slots'[x % Slots] = hits'[x])
    BY <1>5 DEF SlotsHold
  <2>1. /\ x \in Nat /\ hits[x] \in Nat /\ x % Slots \in 0 .. Slots - 1
        /\ turned[x % Slots] \in Nat
    <3>1. x \in Nat /\ hits[x] \in Nat /\ x % Slots \in 0 .. Slots - 1
      BY <1>1, <1>3, <1>4
    <3> HIDE DEF turned
    <3> QED
      BY <1>6, <3>1
  <2>2. turned[x % Slots] <= hits[x] /\ (late' \/ turned[x % Slots] = hits[x])
    BY <1>9
  <2>3. CASE x = t
    <3> HIDE DEF turned
    <3> QED
      BY <1>7, <1>8, <2>1, <2>2, <2>3
  <2>4. CASE x # t
    <3>1. x % Slots # s
      <4>1. x \in Int /\ x < t /\ t - x < Slots
        BY <1>1, <2>1, <2>4
      <4> QED
        BY <1>1, <2>1, <4>1, SlotsApart
    <3> HIDE DEF turned, s
    <3> QED
      BY <1>7, <1>8, <2>1, <2>2, <2>4, <3>1
  <2> QED
    BY <2>3, <2>4
<1>11. ~late' => \A x \in Times : lastSec' < x => hits'[x] = 0
  <2> SUFFICES ASSUME ~late', NEW x \in Times, t < x PROVE hits'[x] = 0
    BY <1>5
  <2>1. x \in Nat /\ lastSec < x /\ ~late
    <3>1. ~(t < lastSec) /\ ~late
      BY <1>5, Zenon
    <3>2. x \in Nat
      BY <1>3
    <3> QED
      BY <1>1, <3>1, <3>2
  <2> QED
    BY <1>1, <1>8, <2>1 DEF TrafficInv
<1>12. late' \in BOOLEAN
  BY <1>5
<1>13. NoneBefore'
  <2> SUFFICES ASSUME NEW x \in Int, x < 1, now - Slots < x, t - Slots < x, x <= t
               PROVE  slots'[x % Slots] = 0
    BY <1>5 DEF NoneBefore, Shown
  <2>1. x % Slots \in 0 .. Slots - 1
    BY <1>1, Quotient
  <2>2. Shown(x)
    BY <1>1 DEF Shown, TrafficInv
  <2>3. slots[x % Slots] = 0
    BY <2>2 DEF TrafficInv, NoneBefore
  <2>4. turned[x % Slots] = 0
    <3>1. Cleared(t)[x % Slots] = 0
      BY <2>1, <2>3 DEF Cleared
    <3> QED
      BY <2>3, <3>1
  <2>5. x % Slots # s
    <3>1. x < t /\ t - x < Slots
      BY <1>1
    <3> QED
      BY <1>1, <3>1, SlotsApart
  <2> HIDE DEF turned, s
  <2> QED
    BY <1>7, <2>1, <2>4, <2>5
<1> QED
  BY <1>1, <1>5, <1>7, <1>8, <1>10, <1>11, <1>12, <1>13 DEF TrafficInv

LEMMA TrafficInit == Init => TrafficInv
<1> SUFFICES ASSUME Init PROVE TrafficInv
  OBVIOUS
<1>1. /\ now = 1 /\ slots = [s \in 0 .. Slots - 1 |-> 0] /\ lastSec = 0
      /\ hits = [t \in Times |-> 0] /\ late = FALSE
  BY Zenon DEF Init, GuardInit
<1>2. SlotsHold
  BY <1>1, GuardAssumption DEF SlotsHold, Times
<1>3. NoneBefore
  <2> SUFFICES ASSUME NEW x \in Int PROVE slots[x % Slots] = 0
    BY DEF NoneBefore
  <2>1. x % Slots \in 0 .. Slots - 1
    BY GuardAssumption, Quotient
  <2> QED
    BY <1>1, <2>1
<1>4. /\ slots \in [0 .. Slots - 1 -> Nat] /\ hits \in [Times -> Nat]
      /\ \A x \in Times : hits[x] = 0
  BY <1>1
<1>5. now = 1 /\ lastSec = 0
  BY <1>1
<1>6. late \in BOOLEAN
  BY <1>1, Zenon
<1>7. now \in Nat /\ lastSec \in Nat /\ lastSec <= now
  BY <1>5
<1> QED
  BY <1>2, <1>4, <1>6, <1>7, <1>3 DEF TrafficInv

LEMMA TrafficStep == TrafficInv /\ [Next]_vars => TrafficInv'
<1> SUFFICES ASSUME TrafficInv, [Next]_vars PROVE TrafficInv'
  OBVIOUS
<1>1. ASSUME UNCHANGED traffic, now' = now \/ now' = now + 1
      PROVE  TrafficInv'
  <2>1. now \in Nat /\ Slots \in Nat /\ lastSec \in Nat
    BY GuardAssumption DEF TrafficInv
  <2>2. ASSUME NEW x \in Times, now' - Slots < x PROVE now - Slots < x
    BY <1>1, <2>1, <2>2 DEF Times
  <2>3. SlotsHold'
    BY <1>1, <2>2 DEF TrafficInv, SlotsHold, traffic
  <2>4. now' \in Nat /\ lastSec <= now'
    BY <1>1, <2>1 DEF TrafficInv
  <2>5. NoneBefore'
    <3>1. UNCHANGED <<slots, lastSec>>
      BY <1>1 DEF traffic
    <3>2. ASSUME NEW x \in Int, now' - Slots < x PROVE now - Slots < x
      BY <1>1, <2>1, <3>2
    <3> QED
      BY <3>1, <3>2 DEF TrafficInv, NoneBefore, Shown
  <2> QED
    BY <1>1, <2>3, <2>4, <2>5 DEF TrafficInv, traffic
<1>2. CASE UNCHANGED <<traffic, now>>
  BY <1>1, <1>2
<1>3. CASE RateStep
  <2>1. CASE Tick
    BY <1>1, <2>1 DEF Tick
  <2>2. CASE Call
    <3>1. now' = now
      BY <2>2 DEF Call
    <3>2. CASE UNCHANGED traffic
      BY <1>2, <3>1, <3>2
    <3>3. CASE \E t \in Readings : TrafficHit(t)
      BY <3>1, <3>3, HitKeeps
    <3>4. CASE \E k \in Keys, p \in {1, Penalty}, t \in Readings : Allow(k, p, t)
      <4>1. PICK k \in Keys, p \in {1, Penalty}, t \in Readings : Allow(k, p, t)
        BY <3>4, Zenon
      <4>2. UNCHANGED traffic
        BY <4>1, Zenon DEF Allow
      <4> QED
        BY <3>2, <4>2
    <3>5. CASE \E a \in Actors, q \in Kinds, t \in Readings : Record(a, q, t)
      <4>1. PICK a \in Actors, q \in Kinds, t \in Readings : Record(a, q, t)
        BY <3>5, Zenon
      <4>2. UNCHANGED traffic
        BY <4>1, Zenon DEF Record
      <4> QED
        BY <3>2, <4>2
    <3> QED
      BY <2>2, <3>3, <3>4, <3>5, Zenon DEF Call
  <2> QED
    BY <1>3, <2>1, <2>2 DEF RateStep, GuardNext
<1> QED
  BY <1>2, <1>3 DEF Next, RequestStep, ConnectionStep, vars, guardVars

(* What trafficPerMin adds up is what was hit in the last Slots seconds. *)
LEMMA MinuteSums ==
    ASSUME TrafficInv, now \in Times
    PROVE  TrafficExact
<1> DEFINE S == {x \in now - Slots + 1 .. now : x > lastSec - Slots /\ x <= lastSec}
           T == {x \in Times : now - Slots < x /\ x <= now}
           f == [x \in S |-> slots[x % Slots]]
           g == [x \in T |-> hits[x]]
           to == [x \in S \cup T |-> x]
<1>1. /\ now \in Nat /\ lastSec \in Nat /\ lastSec <= now /\ Slots \in Nat \ {0}
      /\ now <= MaxTime /\ MaxTime \in Nat
      /\ slots \in [0 .. Slots - 1 -> Nat] /\ hits \in [Times -> Nat]
  BY GuardAssumption DEF TrafficInv, Times
<1>2. IsFiniteSet(S) /\ IsFiniteSet(T)
  <2>1. IsFiniteSet(now - Slots + 1 .. now) /\ IsFiniteSet(Times)
    BY <1>1, FS_Interval DEF Times
  <2>2. S \subseteq now - Slots + 1 .. now /\ T \subseteq Times
    OBVIOUS
  <2> HIDE DEF S, T
  <2> QED
    BY <2>1, <2>2, FS_Subset
<1>3. /\ \A x \in S : x \in Int /\ x <= now /\ now - Slots < x /\ Shown(x)
      /\ \A x \in T : x \in Times /\ x \in Nat /\ x # 0 /\ x <= now /\ now - Slots < x
  BY <1>1, GuardAssumption DEF Shown, Times
<1>4. f \in [S -> Nat] /\ g \in [T -> Nat]
  <2>1. ASSUME NEW x \in S PROVE slots[x % Slots] \in Nat
    <3>1. x % Slots \in 0 .. Slots - 1
      BY <1>1, <1>3, Quotient
    <3> QED
      BY <1>1, <3>1
  <2>2. ASSUME NEW x \in T PROVE hits[x] \in Nat
    BY <1>1, <1>3
  <2> HIDE DEF S, T
  <2> QED
    BY <2>1, <2>2
<1>5. ASSUME NEW x \in S, f[x] # 0
      PROVE  x \in T /\ f[x] <= g[x]
  <2>1. f[x] = slots[x % Slots] /\ Shown(x) /\ x \in Int
    BY <1>3
  <2>2. ~(x < 1)
    BY <1>5, <2>1 DEF TrafficInv, NoneBefore
  <2>3. x \in Times
    BY <1>1, <1>3, <2>1, <2>2 DEF Times
  <2>4. x \in T
    BY <1>3, <2>3
  <2>5. slots[x % Slots] <= hits[x]
    BY <2>1, <2>3 DEF TrafficInv, SlotsHold, Shown
  <2>6. g[x] = hits[x]
    BY <2>4
  <2> HIDE DEF f, g, T
  <2> QED
    BY <2>1, <2>4, <2>5, <2>6
<1>6. \A x \in S \cup T : to[x] = x
  OBVIOUS
<1>7. Total(f) <= Total(g)
  <2>1. \A x \in S : f[x] # 0 => to[x] \in T /\ f[x] <= g[to[x]]
    <3> HIDE DEF S, T, f, g, to
    <3> QED
      BY <1>5, <1>6
  <2>2. \A x, y \in S : f[x] # 0 /\ f[y] # 0 /\ to[x] = to[y] => x = y
    <3> HIDE DEF S, T, f, g, to
    <3> QED
      BY <1>6
  <2>3. IsFiniteSet(S) /\ IsFiniteSet(T) /\ f \in [S -> Nat] /\ g \in [T -> Nat]
    BY <1>2, <1>4
  <2> HIDE DEF S, T, f, g, to
  <2> QED
    BY <2>1, <2>2, <2>3, SumAtMost
<1>8. ASSUME ~late, NEW x \in T, g[x] # 0
      PROVE  x \in S /\ g[x] <= f[x]
  <2>1. g[x] = hits[x] /\ x \in Times /\ x \in Nat /\ x <= now /\ now - Slots < x
    BY <1>3
  <2>2. x <= lastSec
    BY <1>1, <1>8, <2>1 DEF TrafficInv
  <2>3. lastSec - Slots < x /\ x \in now - Slots + 1 .. now
    BY <1>1, <2>1, <2>2
  <2>4. x \in S
    BY <2>2, <2>3
  <2>5. slots[x % Slots] = hits[x]
    BY <1>8, <2>1, <2>2, <2>3 DEF TrafficInv, SlotsHold
  <2>6. f[x] = slots[x % Slots] /\ hits[x] \in Nat
    BY <1>1, <2>1, <2>4
  <2> HIDE DEF f, g, S
  <2> QED
    BY <2>1, <2>4, <2>5, <2>6
<1>9. ASSUME ~late PROVE Total(g) <= Total(f)
  <2>1. \A x \in T : g[x] # 0 => to[x] \in S /\ g[x] <= f[to[x]]
    <3> HIDE DEF S, T, f, g, to
    <3> QED
      BY <1>6, <1>8, <1>9
  <2>2. \A x, y \in T : g[x] # 0 /\ g[y] # 0 /\ to[x] = to[y] => x = y
    <3> HIDE DEF S, T, f, g, to
    <3> QED
      BY <1>6
  <2>3. IsFiniteSet(S) /\ IsFiniteSet(T) /\ f \in [S -> Nat] /\ g \in [T -> Nat]
    BY <1>2, <1>4
  <2> HIDE DEF S, T, f, g, to
  <2> QED
    BY <2>1, <2>2, <2>3, SumAtMost
<1> DEFINE shown == Total(f)
           recent == Total(g)
<1>10. shown \in Nat /\ recent \in Nat
  <2> HIDE DEF S, T, f, g
  <2> QED
    BY <1>2, <1>4, SumNat
<1>11. shown <= recent /\ (late \/ shown = recent)
  <2>1. shown <= recent /\ (~late => recent <= shown)
    BY <1>7, <1>9, Zenon
  <2> HIDE DEF shown, recent
  <2> QED
    BY <1>10, <2>1
<1>12. PerMinute = IF lastSec = 0 \/ now - lastSec >= Slots THEN 0 ELSE shown
  BY Zenon DEF PerMinute, Total
<1>13. ASSUME lastSec = 0 \/ now - lastSec >= Slots PROVE shown = 0
  <2>1. \A x \in S : f[x] = 0
    <3> SUFFICES ASSUME NEW x \in S PROVE slots[x % Slots] = 0
      OBVIOUS
    <3>1. x \in Int /\ Shown(x) /\ now - Slots < x /\ x <= lastSec
      BY <1>3 DEF Shown
    <3>2. x < 1
      BY <1>1, <1>13, <3>1
    <3> QED
      BY <3>1, <3>2 DEF TrafficInv, NoneBefore
  <2> HIDE DEF S, f
  <2> QED
    BY <1>2, <1>4, <2>1, SumZero
<1>14. TrafficExact = (SlotsHold /\ PerMinute <= recent /\ (late \/ PerMinute = recent))
  BY Zenon DEF TrafficExact, Total
<1> HIDE DEF shown, recent
<1>15. PerMinute = shown
  BY <1>12, <1>13
<1> QED
  BY <1>11, <1>14, <1>15 DEF TrafficInv

(***************************************************************************)
(* The flow guard's window.                                                *)
(***************************************************************************)
Window == [1 .. WindowLength -> [Kinds -> Nat]]

ActorRecord(a) ==
    a = [win |-> a.win, winStart |-> a.winStart, lastSeen |-> a.lastSeen,
         penaltyUntil |-> a.penaltyUntil, lastAlert |-> a.lastAlert,
         lastAlertKind |-> a.lastAlertKind]

(* What was recorded of an actor is in its window or older, and of one     *)
(* that is forgotten older than the window of any reading to come.         *)
ActorPart(a, s) ==
    /\ ActorRecord(a)
    /\ a.win \in Window /\ a.winStart \in Nat /\ a.lastSeen \in Nat
    /\ a.winStart <= now /\ a.winStart <= a.lastSeen + Lag
    /\ a.winStart = 0 => /\ a.win = [i \in 1 .. WindowLength |-> Empty]
                         /\ \A k \in Kinds, x \in Times :
                              s[k][x] # 0 => x + WindowLength + Lag <= now
    /\ a.winStart # 0 => \A k \in Kinds, x \in Times : a.winStart < x => s[k][x] = 0
    /\ a.winStart # 0 => \A k \in Kinds, i \in 1 .. WindowLength :
          LET x == a.winStart - WindowLength + i
          IN  /\ x \in Times => a.win[i][k] = s[k][x]
              /\ x < 1 => a.win[i][k] = 0

WindowInv ==
    /\ now \in Times
    /\ seen \in [Actors -> [Kinds -> [Times -> Nat]]]
    /\ DOMAIN mActors = Actors
    /\ mActors = [a \in Actors |-> mActors[a]]
    /\ \A a \in Actors : ActorPart(mActors[a], seen[a])

LEMMA WindowNumbers ==
    /\ WindowLength \in Nat \ {0} /\ Lag \in Nat /\ MaxTime \in Nat
    /\ ActorIdle \in Nat /\ WindowLength + 2 * Lag <= ActorIdle
BY GuardAssumption

LEMMA TimesCount == \A x \in Times : x \in Nat /\ x # 0
BY GuardAssumption DEF Times

LEMMA EmptyFits ==
    Empty \in [Kinds -> Nat] /\ [i \in 1 .. WindowLength |-> Empty] \in Window
BY DEF Empty, Window

LEMMA NoActorFits ==
    ASSUME NEW s, now \in Nat,
           \A k \in Kinds, x \in Times : s[k][x] # 0 => x + WindowLength + Lag <= now
    PROVE  ActorPart(NoActor, s)
<1>1. ActorRecord(NoActor)
  BY DEF ActorRecord, NoActor
<1>2. /\ NoActor.win = [i \in 1 .. WindowLength |-> Empty]
      /\ NoActor.winStart = 0 /\ NoActor.lastSeen = 0
  BY DEF NoActor
<1> QED
  BY <1>1, <1>2, WindowNumbers, TimesCount, EmptyFits DEF ActorPart

(* The window of reading t, and the request counted in it. *)
Turned(found, t) == Rotate([found EXCEPT !.lastSeen = t], t)
Counted(found, t, kind) == [Turned(found, t) EXCEPT !.win[WindowLength][kind] = @ + 1]

Moved(found, t) ==
    IF t <= found.winStart THEN found.win
    ELSE [i \in 1 .. WindowLength |->
            IF i + (t - found.winStart) \in 1 .. WindowLength
            THEN found.win[i + (t - found.winStart)] ELSE Empty]

Filled(win, kind) ==
    [win EXCEPT ![WindowLength] =
        [win[WindowLength] EXCEPT ![kind] = win[WindowLength][kind] + 1]]

LEMMA CountedIs ==
    ASSUME NEW found, ActorRecord(found), NEW t, NEW kind
    PROVE  Counted(found, t, kind) =
             [win |-> Filled(Moved(found, t), kind),
              winStart |-> Turned(found, t).winStart, lastSeen |-> t,
              penaltyUntil |-> found.penaltyUntil, lastAlert |-> found.lastAlert,
              lastAlertKind |-> found.lastAlertKind]
           /\ Turned(found, t).winStart = IF t <= found.winStart THEN found.winStart ELSE t
<1> DEFINE turned == Turned(found, t)
           counted == Counted(found, t, kind)
           start == IF t <= found.winStart THEN found.winStart ELSE t
           win == Moved(found, t)
           full == Filled(win, kind)
           f == [found EXCEPT !.lastSeen = t]
<1>1. turned = [win |-> win, winStart |-> start, lastSeen |-> t,
                penaltyUntil |-> found.penaltyUntil, lastAlert |-> found.lastAlert,
                lastAlertKind |-> found.lastAlertKind]
  <2>1. f = [win |-> found.win, winStart |-> found.winStart, lastSeen |-> t,
             penaltyUntil |-> found.penaltyUntil, lastAlert |-> found.lastAlert,
             lastAlertKind |-> found.lastAlertKind]
    BY DEF ActorRecord
  <2>2. f.winStart = found.winStart /\ f.win = found.win
    BY <2>1
  <2>3. CASE t <= found.winStart
    BY <2>1, <2>2, <2>3 DEF Rotate, Turned, Moved
  <2>4. CASE ~(t <= found.winStart)
    <3>1. turned = [f EXCEPT !.winStart = t, !.win = win]
      BY <2>2, <2>4 DEF Rotate, Turned, Moved
    <3> HIDE DEF turned, win, f
    <3> QED
      BY <2>1, <2>4, <3>1
  <2> QED
    BY <2>3, <2>4
<1> HIDE DEF win, start, f
<1>2. turned.win = win /\ turned.winStart = start
  <2> HIDE DEF turned
  <2> QED
    BY <1>1
<1>3. counted = [turned EXCEPT !.win = full]
  <2>1. counted = [turned EXCEPT !.win = Filled(turned.win, kind)]
    <3> HIDE DEF turned
    <3> QED
      BY SMT DEF Counted, Filled, turned
  <2> HIDE DEF turned, counted
  <2> QED
    BY <1>2, <2>1
<1> HIDE DEF turned, full, counted
<1>4. counted = [win |-> full, winStart |-> start, lastSeen |-> t,
                 penaltyUntil |-> found.penaltyUntil, lastAlert |-> found.lastAlert,
                 lastAlertKind |-> found.lastAlertKind]
  BY <1>1, <1>3
<1> QED
  BY <1>2, <1>4 DEF counted, turned, full, win, start

LEMMA CountedLast ==
    ASSUME NEW found, ActorRecord(found), NEW t, NEW kind
    PROVE  /\ Counted(found, t, kind).lastSeen = t
           /\ Counted(found, t, kind).penaltyUntil = found.penaltyUntil
           /\ Counted(found, t, kind).lastAlert = found.lastAlert
           /\ Counted(found, t, kind).lastAlertKind = found.lastAlertKind
BY CountedIs

LEMMA CountedFits ==
    ASSUME now \in Times, NEW s \in [Kinds -> [Times -> Nat]], NEW found, ActorPart(found, s),
           NEW t \in Readings, NEW kind \in Kinds
    PROVE  /\ Turned(found, t).winStart \in Times
           /\ ActorPart(Counted(found, t, kind),
                        [s EXCEPT ![kind][Turned(found, t).winStart] = @ + 1])
<1> DEFINE turned == Turned(found, t)
           counted == Counted(found, t, kind)
           start == IF t <= found.winStart THEN found.winStart ELSE t
           after == [s EXCEPT ![kind][start] = @ + 1]
           win == Moved(found, t)
           last == [win[WindowLength] EXCEPT ![kind] = win[WindowLength][kind] + 1]
           full == Filled(win, kind)
<1>1. /\ t \in Times /\ t \in Nat /\ t # 0 /\ t <= now /\ now - Lag <= t
  BY WindowNumbers, TimesCount, EmptyFits DEF Readings
<1>2. /\ ActorRecord(found) /\ found.win \in Window /\ found.winStart \in Nat
      /\ found.winStart <= now
  BY DEF ActorPart
<1>3. turned.winStart = start
  BY <1>2, CountedIs
<1>4. counted = [win |-> full, winStart |-> start, lastSeen |-> t,
                 penaltyUntil |-> found.penaltyUntil, lastAlert |-> found.lastAlert,
                 lastAlertKind |-> found.lastAlertKind]
  BY <1>2, CountedIs
<1>5. start \in Times /\ start \in Nat /\ start # 0 /\ start <= now /\ start <= t + Lag
  <2>1. now \in Nat /\ now <= MaxTime
    BY WindowNumbers DEF Times
  <2>2. start \in Nat /\ start # 0 /\ start <= now
    BY <1>1, <1>2
  <2> HIDE DEF start
  <2> QED
    BY <1>1, <2>1, <2>2, WindowNumbers DEF Times
<1>6. win \in Window
  BY <1>1, <1>2, WindowNumbers, TimesCount, EmptyFits DEF Window, Moved
<1>7. full \in Window /\ full[WindowLength][kind] = win[WindowLength][kind] + 1
      /\ \A i \in 1 .. WindowLength, k \in Kinds :
            i # WindowLength \/ k # kind => full[i][k] = win[i][k]
  <2>1. WindowLength \in 1 .. WindowLength /\ win[WindowLength] \in [Kinds -> Nat]
    <3> HIDE DEF win
    <3> QED
      BY <1>6, WindowNumbers, TimesCount, EmptyFits DEF Window
  <2>2. /\ last \in [Kinds -> Nat] /\ last[kind] = win[WindowLength][kind] + 1
        /\ \A k \in Kinds : k # kind => last[k] = win[WindowLength][k]
    <3> HIDE DEF win
    <3> QED
      BY <2>1
  <2>3. full = [win EXCEPT ![WindowLength] = last]
    BY DEF Filled
  <2> HIDE DEF win, full, last
  <2> QED
    BY <1>6, <2>1, <2>2, <2>3 DEF Window
<1>8. after[kind][start] = s[kind][start] + 1
      /\ \A k \in Kinds, x \in Times : k # kind \/ x # start => after[k][x] = s[k][x]
  <2> HIDE DEF start
  <2> QED
    BY <1>5
<1>9. \A k \in Kinds, x \in Times : start < x => s[k][x] = 0
  <2> SUFFICES ASSUME NEW k \in Kinds, NEW x \in Times, start < x PROVE s[k][x] = 0
    OBVIOUS
  <2>1. x \in Nat
    BY WindowNumbers, TimesCount, EmptyFits
  <2>2. CASE found.winStart = 0
    BY <1>1, <2>1, <2>2, WindowNumbers, TimesCount, EmptyFits DEF ActorPart
  <2>3. CASE found.winStart # 0
    <3>1. found.winStart < x
      BY <1>1, <1>2, <2>1
    <3> QED
      BY <2>3, <3>1 DEF ActorPart
  <2> QED
    BY <2>2, <2>3
<1>10. \A k \in Kinds, i \in 1 .. WindowLength :
          start - WindowLength + i \in Times => win[i][k] = s[k][start - WindowLength + i]
  <2> SUFFICES ASSUME NEW k \in Kinds, NEW i \in 1 .. WindowLength,
                      start - WindowLength + i \in Times
               PROVE  win[i][k] = s[k][start - WindowLength + i]
    OBVIOUS
  <2> DEFINE x == start - WindowLength + i
             j == i + (t - found.winStart)
  <2>1. CASE t <= found.winStart
    <3>1. start = found.winStart /\ found.winStart # 0 /\ win = found.win
      BY <1>1, <1>2, <2>1 DEF Moved
    <3> QED
      BY <3>1 DEF ActorPart
  <2>2. CASE ~(t <= found.winStart) /\ found.winStart # 0
    <3>1. start = t /\ win[i] = IF j \in 1 .. WindowLength THEN found.win[j] ELSE Empty
      BY <2>2 DEF Moved
    <3>2. CASE j \in 1 .. WindowLength
      <4>1. found.winStart - WindowLength + j = x
        <5>1. x = t - WindowLength + i /\ i \in Nat
          BY <3>1
        <5>2. j = i + (t - found.winStart) /\ found.winStart <= t
          BY <1>1, <1>2, <2>2
        <5> HIDE DEF x, start, win, j
        <5> QED
          BY <1>1, <1>2, <5>1, <5>2, WindowNumbers
      <4>2. found.win[j][k] = s[k][found.winStart - WindowLength + j]
        <5> HIDE DEF j, x
        <5> QED
          BY <2>2, <3>2, <4>1 DEF ActorPart, x
      <4> QED
        BY <3>1, <3>2, <4>1, <4>2
    <3>3. CASE j \notin 1 .. WindowLength
      <4>1. found.winStart < x
        <5>1. x = t - WindowLength + i /\ j = i + (t - found.winStart) /\ found.winStart <= t
          BY <1>1, <1>2, <2>2, <3>1
        <5> HIDE DEF x, j, start, win
        <5> QED
          BY <1>1, <1>2, <3>3, <5>1, WindowNumbers
      <4>2. s[k][x] = 0
        BY <2>2, <4>1 DEF ActorPart
      <4> QED
        BY <3>1, <3>3, <4>2 DEF Empty
    <3> QED
      BY <3>2, <3>3
  <2>3. CASE ~(t <= found.winStart) /\ found.winStart = 0
    <3>1. start = t /\ win[i][k] = 0
      <4>1. found.win = [y \in 1 .. WindowLength |-> Empty]
        BY <2>3 DEF ActorPart
      <4> QED
        BY <2>3, <4>1 DEF Empty, Moved
    <3>2. ~(x + WindowLength + Lag <= now)
      <4>1. x = t - WindowLength + i /\ now \in Nat
        BY <3>1, TimesCount
      <4> HIDE DEF x, start, win
      <4> QED
        BY <1>1, <4>1, WindowNumbers
    <3>3. s[k][x] = 0
      BY <2>3, <3>2 DEF ActorPart
    <3> QED
      BY <3>1, <3>3
  <2> QED
    BY <2>1, <2>2, <2>3
<1>11. ASSUME NEW k \in Kinds, NEW i \in 1 .. WindowLength,
              start - WindowLength + i < 1
       PROVE  win[i][k] = 0
  <2> DEFINE x == start - WindowLength + i
             j == i + (t - found.winStart)
  <2>1. CASE t <= found.winStart
    <3>1. start = found.winStart /\ found.winStart # 0 /\ win = found.win
      BY <1>1, <1>2, <2>1 DEF Moved
    <3> QED
      BY <1>11, <3>1 DEF ActorPart
  <2>2. CASE ~(t <= found.winStart) /\ found.winStart # 0 /\ j \in 1 .. WindowLength
    <3>1. start = t /\ win[i] = found.win[j]
      BY <2>2 DEF Moved
    <3>2. found.winStart - WindowLength + j = x
      <4>1. x = t - WindowLength + i /\ i \in Nat
        BY <3>1
      <4>2. j = i + (t - found.winStart) /\ found.winStart <= t
        BY <1>1, <1>2, <2>2
      <4> HIDE DEF x, start, win, j
      <4> QED
        BY <1>1, <1>2, <4>1, <4>2, WindowNumbers
    <3>3. x < 1
      BY <1>11
    <3>4. found.win[j][k] = 0
      <4> HIDE DEF j, x
      <4> QED
        BY <2>2, <3>2, <3>3 DEF ActorPart
    <3> QED
      BY <3>1, <3>4
  <2>3. CASE ~(t <= found.winStart) /\ j \notin 1 .. WindowLength
    BY <2>3 DEF Empty, Moved
  <2>4. CASE ~(t <= found.winStart) /\ found.winStart = 0
    <3>1. found.win = [y \in 1 .. WindowLength |-> Empty]
      BY <2>4 DEF ActorPart
    <3> QED
      BY <2>4, <3>1 DEF Empty, Moved
  <2> QED
    BY <2>1, <2>2, <2>3, <2>4
<1>12. ActorPart(counted, after)
  <2>1. /\ counted.win = full /\ counted.winStart = start /\ counted.lastSeen = t
        /\ ActorRecord(counted)
    <3> HIDE DEF full, start, counted
    <3> QED
      BY <1>4 DEF ActorRecord
  <2>2. \A k \in Kinds, x \in Times : start < x => after[k][x] = 0
    <3> SUFFICES ASSUME NEW k \in Kinds, NEW x \in Times, start < x PROVE after[k][x] = 0
      OBVIOUS
    <3>1. x # start
      BY <1>5, WindowNumbers, TimesCount, EmptyFits
    <3>2. after[k][x] = s[k][x]
      BY <1>8, <3>1
    <3> QED
      BY <1>9, <3>2
  <2>3. ASSUME NEW k \in Kinds, NEW i \in 1 .. WindowLength,
               start - WindowLength + i \in Times
        PROVE  full[i][k] = after[k][start - WindowLength + i]
    <3>1. start - WindowLength + i = start <=> i = WindowLength
      BY <1>5, WindowNumbers, TimesCount, EmptyFits
    <3>2. win[i][k] = s[k][start - WindowLength + i]
      BY <1>10, <2>3
    <3> HIDE DEF after, start, full, win
    <3> QED
      BY <1>7, <1>8, <2>3, <3>1, <3>2
  <2>4. ASSUME NEW k \in Kinds, NEW i \in 1 .. WindowLength,
               start - WindowLength + i < 1
        PROVE  full[i][k] = 0
    <3>1. i # WindowLength
      BY <1>5, <2>4, WindowNumbers
    <3>2. win[i][k] = 0
      BY <1>11, <2>4
    <3> HIDE DEF after, start, full, win
    <3> QED
      BY <1>7, <3>1, <3>2
  <2> HIDE DEF after, start, full, counted
  <2> QED
    BY <1>1, <1>5, <1>7, <2>1, <2>2, <2>3, <2>4 DEF ActorPart
<1>13. [s EXCEPT ![kind][turned.winStart] = @ + 1] = after
  <2> HIDE DEF turned, start
  <2> QED
    BY <1>3
<1> DEFINE kept == [s EXCEPT ![kind][turned.winStart] = @ + 1]
<1>14. turned.winStart \in Times /\ ActorPart(counted, kept)
  <2> HIDE DEF turned, counted, start, after, kept
  <2> QED
    BY <1>5, <1>12, <1>3, <1>13 DEF kept
<1> QED
  BY <1>14, Zenon

LEMMA WindowInit == Init => WindowInv
<1> SUFFICES ASSUME Init PROVE WindowInv
  OBVIOUS
<1>1. /\ now = 1 /\ mActors = [a \in Actors |-> NoActor]
      /\ seen = [a \in Actors |-> [k \in Kinds |-> [t \in Times |-> 0]]]
  BY DEF Init, GuardInit
<1>2. now \in Times /\ now \in Nat
  BY <1>1, GuardAssumption DEF Times
<1>3. /\ seen \in [Actors -> [Kinds -> [Times -> Nat]]]
      /\ \A a \in Actors, k \in Kinds, x \in Times : seen[a][k][x] = 0
  BY <1>1
<1>4. \A a \in Actors : ActorPart(mActors[a], seen[a])
  BY <1>1, <1>2, <1>3, NoActorFits
<1> QED
  BY <1>1, <1>2, <1>3, <1>4 DEF WindowInv

(* One who has been idle for so long that it is forgotten. *)
LEMMA ForgottenFits ==
    ASSUME WindowInv, NEW t \in Readings, NEW a \in Forgotten(t)
    PROVE  a \in Actors /\ ActorPart(NoActor, seen[a])
<1>1. a \in Actors /\ t - mActors[a].lastSeen > ActorIdle
  BY DEF Forgotten
<1>2. /\ ActorPart(mActors[a], seen[a]) /\ now \in Times /\ now \in Nat
      /\ t \in Nat /\ t <= now
  BY <1>1, WindowNumbers, TimesCount, EmptyFits DEF WindowInv, Readings
<1>3. ASSUME NEW k \in Kinds, NEW x \in Times, seen[a][k][x] # 0
      PROVE  x + WindowLength + Lag <= now
  <2> DEFINE start == mActors[a].winStart
             idle == mActors[a].lastSeen
  <2>1. x \in Nat /\ start \in Nat /\ idle \in Nat /\ start <= idle + Lag
    BY <1>2, WindowNumbers, TimesCount, EmptyFits DEF ActorPart
  <2>2. CASE start = 0
    BY <1>2, <1>3, <2>2 DEF ActorPart
  <2>3. CASE start # 0
    <3>1. ~(start < x)
      BY <1>2, <1>3, <2>3 DEF ActorPart
    <3>2. t - idle > ActorIdle
      BY <1>1
    <3> HIDE DEF start, idle
    <3> QED
      BY <1>2, <2>1, <3>1, <3>2, WindowNumbers, TimesCount, EmptyFits
  <2> QED
    BY <2>2, <2>3
<1> QED
  BY <1>1, <1>2, <1>3, NoActorFits

LEMMA RecordKeeps ==
    ASSUME WindowInv, NEW name \in Actors, NEW kind \in Kinds, NEW t \in Readings,
           Record(name, kind, t), now' = now
    PROVE  WindowInv'
<1> DEFINE gone == Forgotten(t)
           found == IF name \in gone THEN NoActor ELSE mActors[name]
           turned == Turned(found, t)
           counted == Counted(found, t, kind)
<1>1. PICK raised :
        /\ mActors' = [x \in Actors |->
              IF x = name
              THEN [counted EXCEPT !.penaltyUntil = raised.actor.penaltyUntil,
                                   !.lastAlert = raised.actor.lastAlert,
                                   !.lastAlertKind = raised.actor.lastAlertKind]
              ELSE IF x \in gone THEN NoActor ELSE mActors[x]]
        /\ seen' = [seen EXCEPT ![name][kind][turned.winStart] = @ + 1]
  BY ZenonT(30) DEF Record, Turned, Counted
<1> DEFINE kept == [seen[name] EXCEPT ![kind][turned.winStart] = @ + 1]
           actor == [counted EXCEPT !.penaltyUntil = raised.actor.penaltyUntil,
                                    !.lastAlert = raised.actor.lastAlert,
                                    !.lastAlertKind = raised.actor.lastAlertKind]
<1>2. /\ now \in Times /\ now \in Nat /\ seen \in [Actors -> [Kinds -> [Times -> Nat]]]
      /\ \A a \in Actors : ActorPart(mActors[a], seen[a])
  BY WindowNumbers, TimesCount, EmptyFits DEF WindowInv
<1>3. ActorPart(found, seen[name])
  BY <1>2, ForgottenFits
<1>4. turned.winStart \in Times /\ ActorPart(counted, kept)
  <2>1. seen[name] \in [Kinds -> [Times -> Nat]]
    BY <1>2
  <2> HIDE DEF found
  <2> QED
    BY <1>2, <1>3, <2>1, CountedFits
<1>5. kept \in [Kinds -> [Times -> Nat]]
  <2> DEFINE start == turned.winStart
             mine == seen[name]
             of == [mine[kind] EXCEPT ![start] = mine[kind][start] + 1]
  <2>1. mine \in [Kinds -> [Times -> Nat]] /\ start \in Times
    BY <1>2, <1>4
  <2>2. kept = [mine EXCEPT ![kind] = of]
    <3> HIDE DEF turned
    <3> QED
      BY SMT
  <2> HIDE DEF start, mine, kept
  <2>3. of \in [Times -> Nat]
    BY <2>1
  <2> HIDE DEF of
  <2> QED
    BY <2>1, <2>2, <2>3
<1>6. /\ seen' \in [Actors -> [Kinds -> [Times -> Nat]]] /\ seen'[name] = kept
      /\ \A a \in Actors : a # name => seen'[a] = seen[a]
  <2>1. seen' = [seen EXCEPT ![name] = kept]
    BY <1>1
  <2> HIDE DEF kept
  <2> QED
    BY <1>2, <1>5, <2>1
<1>7. ActorPart(actor, kept)
  <2>1. counted = [win |-> counted.win, winStart |-> counted.winStart,
                   lastSeen |-> counted.lastSeen, penaltyUntil |-> counted.penaltyUntil,
                   lastAlert |-> counted.lastAlert, lastAlertKind |-> counted.lastAlertKind]
    BY <1>4 DEF ActorPart, ActorRecord
  <2>2. /\ actor.win = counted.win /\ actor.winStart = counted.winStart
        /\ actor.lastSeen = counted.lastSeen /\ ActorRecord(actor)
    <3> DEFINE w == counted.win
               start == counted.winStart
               idle == counted.lastSeen
               until == counted.penaltyUntil
               alert == counted.lastAlert
               of == counted.lastAlertKind
    <3> HIDE DEF w, start, idle, until, alert, of
    <3>1. counted = [win |-> w, winStart |-> start, lastSeen |-> idle,
                     penaltyUntil |-> until, lastAlert |-> alert, lastAlertKind |-> of]
      <4> HIDE DEF counted
      <4> QED
        BY <2>1 DEF w, start, idle, until, alert, of
    <3>2. actor = [win |-> w, winStart |-> start, lastSeen |-> idle,
                   penaltyUntil |-> raised.actor.penaltyUntil,
                   lastAlert |-> raised.actor.lastAlert,
                   lastAlertKind |-> raised.actor.lastAlertKind]
      <4> DEFINE a1 == [counted EXCEPT !.penaltyUntil = raised.actor.penaltyUntil]
                 a2 == [a1 EXCEPT !.lastAlert = raised.actor.lastAlert]
      <4> HIDE DEF counted
      <4>1. actor = [a2 EXCEPT !.lastAlertKind = raised.actor.lastAlertKind]
        OBVIOUS
      <4>2. a1 = [win |-> w, winStart |-> start, lastSeen |-> idle,
                  penaltyUntil |-> raised.actor.penaltyUntil,
                  lastAlert |-> alert, lastAlertKind |-> of]
        BY <3>1
      <4> HIDE DEF a1
      <4>3. a2 = [win |-> w, winStart |-> start, lastSeen |-> idle,
                  penaltyUntil |-> raised.actor.penaltyUntil,
                  lastAlert |-> raised.actor.lastAlert, lastAlertKind |-> of]
        BY <4>2
      <4> HIDE DEF a2, actor
      <4> QED
        BY <4>1, <4>3
    <3> HIDE DEF counted, actor
    <3>3. actor.win = w /\ actor.winStart = start /\ actor.lastSeen = idle
      BY <3>2
    <3>4. ActorRecord(actor)
      BY <3>2 DEF ActorRecord
    <3> QED
      BY <3>3, <3>4 DEF w, start, idle
  <2> HIDE DEF counted, kept, actor
  <2> QED
    BY <1>4, <2>2 DEF ActorPart
<1>8. ASSUME NEW a \in Actors PROVE ActorPart(mActors[a], seen[a])'
  <2> HIDE DEF counted, kept, actor, gone
  <2>1. CASE a = name
    <3>1. mActors'[a] = actor /\ seen'[a] = kept
      BY <1>1, <1>6, <2>1 DEF actor
    <3> QED
      BY <1>7, <3>1 DEF ActorPart
  <2>2. CASE a # name /\ a \in gone
    <3>1. mActors'[a] = NoActor /\ seen'[a] = seen[a]
      BY <1>1, <1>6, <2>2
    <3>2. ActorPart(NoActor, seen[a])
      BY <2>2, ForgottenFits DEF gone
    <3> QED
      BY <3>1, <3>2 DEF ActorPart
  <2>3. CASE a # name /\ a \notin gone
    <3>1. mActors'[a] = mActors[a] /\ seen'[a] = seen[a]
      BY <1>1, <1>6, <2>3
    <3>2. ActorPart(mActors[a], seen[a])
      BY <1>2
    <3> QED
      BY <3>1, <3>2 DEF ActorPart
  <2> QED
    BY <2>1, <2>2, <2>3
<1>9. DOMAIN mActors' = Actors /\ mActors' = [a \in Actors |-> mActors'[a]]
  <2> HIDE DEF actor, counted, gone
  <2> QED
    BY <1>1
<1> QED
  BY <1>2, <1>6, <1>8, <1>9 DEF WindowInv

LEMMA WindowStep == WindowInv /\ [Next]_vars => WindowInv'
<1> SUFFICES ASSUME WindowInv, [Next]_vars PROVE WindowInv'
  OBVIOUS
<1>1. ASSUME UNCHANGED <<mActors, seen>>, now' = now \/ (now < MaxTime /\ now' = now + 1)
      PROVE  WindowInv'
  <2>1. now \in Times /\ now \in Nat /\ now' \in Times /\ now' \in Nat /\ now <= now'
    <3>1. now \in Nat /\ now # 0 /\ now \in Times
      BY WindowNumbers, TimesCount, EmptyFits DEF WindowInv
    <3> QED
      BY <1>1, <3>1, WindowNumbers, TimesCount, EmptyFits DEF Times
  <2>2. ASSUME NEW a \in Actors PROVE ActorPart(mActors[a], seen[a])'
    <3>1. ActorPart(mActors[a], seen[a])
      BY DEF WindowInv
    <3>2. \A x \in Times : x \in Nat /\ (x + WindowLength + Lag <= now =>
                                          x + WindowLength + Lag <= now')
      BY <2>1, WindowNumbers, TimesCount, EmptyFits
    <3>3. mActors[a].winStart <= now => mActors[a].winStart <= now'
      BY <2>1, <3>1 DEF ActorPart
    <3> QED
      BY <1>1, <3>1, <3>2, <3>3 DEF ActorPart
  <2> QED
    BY <1>1, <2>1, <2>2 DEF WindowInv
<1>2. CASE UNCHANGED <<flows, now>>
  BY <1>1, <1>2 DEF flows
<1>3. CASE RateStep
  <2>1. CASE Tick
    BY <1>1, <2>1 DEF Tick, flows
  <2>2. CASE Call
    <3>1. now' = now
      BY <2>2 DEF Call
    <3>2. CASE UNCHANGED flows
      BY <1>2, <3>1, <3>2
    <3>3. CASE \E t \in Readings : TrafficHit(t)
      <4>1. PICK t \in Readings : TrafficHit(t)
        BY <3>3, Zenon
      <4>2. UNCHANGED flows
        BY <4>1, Zenon DEF TrafficHit
      <4> QED
        BY <3>2, <4>2
    <3>4. CASE \E k \in Keys, p \in {1, Penalty}, t \in Readings : Allow(k, p, t)
      <4>1. PICK k \in Keys, p \in {1, Penalty}, t \in Readings : Allow(k, p, t)
        BY <3>4, Zenon
      <4>2. UNCHANGED flows
        BY <4>1, Zenon DEF Allow
      <4> QED
        BY <3>2, <4>2
    <3>5. CASE \E a \in Actors, q \in Kinds, t \in Readings : Record(a, q, t)
      <4>1. PICK a \in Actors, q \in Kinds, t \in Readings : Record(a, q, t)
        BY <3>5, Zenon
      <4> QED
        BY <3>1, <4>1, RecordKeeps
    <3> QED
      BY <2>2, <3>3, <3>4, <3>5, Zenon DEF Call
  <2> QED
    BY <1>3, <2>1, <2>2 DEF RateStep, GuardNext
<1> QED
  BY <1>2, <1>3 DEF Next, RequestStep, ConnectionStep, vars, guardVars

(* The count of a kind is what was recorded of it in the window's ticks. *)
LEMMA WindowSums ==
    ASSUME WindowInv, NEW a \in Actors, NEW k \in Kinds, mActors[a].winStart # 0
    PROVE  LET start == mActors[a].winStart
           IN  Sum(mActors[a], k) =
                 FoldFunction(+, 0, [t \in {x \in Times : start - WindowLength < x /\ x <= start}
                                       |-> seen[a][k][t]])
<1> DEFINE start == mActors[a].winStart
           S == 1 .. WindowLength
           T == {x \in Times : start - WindowLength < x /\ x <= start}
           f == [i \in S |-> mActors[a].win[i][k]]
           g == [t \in T |-> seen[a][k][t]]
           to == [i \in S |-> start - WindowLength + i]
           from == [x \in T |-> x - start + WindowLength]
<1>1. /\ start \in Nat /\ start # 0 /\ start <= MaxTime
      /\ WindowLength \in Nat \ {0} /\ MaxTime \in Nat
      /\ mActors[a].win \in [S -> [Kinds -> Nat]] /\ seen[a][k] \in [Times -> Nat]
  <2>1. now \in Nat /\ now <= MaxTime
    BY WindowNumbers DEF WindowInv, Times
  <2>2. ActorPart(mActors[a], seen[a])
    BY DEF WindowInv
  <2>3. start <= now /\ start \in Nat /\ mActors[a].win \in [S -> [Kinds -> Nat]]
    BY <2>2 DEF ActorPart, Window
  <2>4. seen[a][k] \in [Times -> Nat]
    BY DEF WindowInv
  <2> QED
    BY <2>1, <2>3, <2>4, WindowNumbers
<1>2. ASSUME NEW i \in S
      PROVE  LET x == start - WindowLength + i
             IN  /\ x \in Times => mActors[a].win[i][k] = seen[a][k][x]
                 /\ x < 1 => mActors[a].win[i][k] = 0
  <2>1. ActorPart(mActors[a], seen[a])
    BY DEF WindowInv
  <2> QED
    BY <2>1, <1>1 DEF ActorPart
<1>3. IsFiniteSet(S) /\ IsFiniteSet(T)
  <2>1. IsFiniteSet(S) /\ IsFiniteSet(Times)
    BY <1>1, FS_Interval DEF Times
  <2>2. T \subseteq Times
    OBVIOUS
  <2> HIDE DEF S, T
  <2> QED
    BY <2>1, <2>2, FS_Subset
<1>4. f \in [S -> Nat] /\ g \in [T -> Nat]
  <2>1. ASSUME NEW i \in S PROVE mActors[a].win[i][k] \in Nat
    BY <1>1
  <2>2. ASSUME NEW x \in T PROVE seen[a][k][x] \in Nat
    BY <1>1
  <2> HIDE DEF S, T
  <2> QED
    BY <2>1, <2>2
<1> HIDE DEF start
<1>5. ASSUME NEW i \in S, f[i] # 0 PROVE to[i] \in T /\ f[i] <= g[to[i]]
  <2> DEFINE x == start - WindowLength + i
  <2>1. f[i] = mActors[a].win[i][k] /\ to[i] = x /\ f[i] \in Nat
    BY <1>4
  <2>2. x \in Int /\ ~(x < 1)
    BY <1>1, <1>2, <1>5, <2>1
  <2>3. x \in Times /\ start - WindowLength < x /\ x <= start
    BY <1>1, <2>2 DEF Times
  <2>4. f[i] = seen[a][k][x]
    BY <1>2, <2>1, <2>3
  <2>5. x \in T /\ g[x] = seen[a][k][x]
    BY <2>3
  <2> HIDE DEF f, g, T, S, to, x
  <2> QED
    BY <2>1, <2>4, <2>5
<1>6. ASSUME NEW x \in T PROVE from[x] \in S /\ g[x] <= f[from[x]]
  <2> DEFINE i == x - start + WindowLength
  <2>1. x \in Nat /\ x \in Times /\ start - WindowLength < x /\ x <= start
    BY TimesCount
  <2>2. i \in S /\ start - WindowLength + i = x /\ from[x] = i
    BY <1>1, <2>1
  <2>3. g[x] = seen[a][k][x] /\ f[i] = mActors[a].win[i][k] /\ g[x] \in Nat
    BY <1>4, <2>2
  <2> HIDE DEF f, g, T, S, from, i
  <2> QED
    BY <1>2, <2>1, <2>2, <2>3
<1>7. Total(f) <= Total(g)
  <2>1. \A i, j \in S : to[i] = to[j] => i = j
    BY <1>1
  <2> HIDE DEF f, g, S, T, to
  <2> QED
    BY <1>3, <1>4, <1>5, <2>1, SumAtMost
<1>8. Total(g) <= Total(f)
  <2>1. \A x, y \in T : from[x] = from[y] => x = y
    BY <1>1, TimesCount
  <2> HIDE DEF f, g, S, T, from
  <2> QED
    BY <1>3, <1>4, <1>6, <2>1, SumAtMost
<1>9. Total(f) = Total(g)
  <2>1. Total(f) \in Nat /\ Total(g) \in Nat
    <3> HIDE DEF f, g, S, T
    <3> QED
      BY <1>3, <1>4, SumNat
  <2> HIDE DEF f, g, S, T
  <2> QED
    BY <1>7, <1>8, <2>1
<1> QED
  BY <1>9, Zenon DEF Total, Sum, start

(* However late the readings are within Lag, and whoever is forgotten: an  *)
(* element of an actor's window holds exactly the responses recorded in    *)
(* its tick, and the count that a rule is judged by exactly those of the   *)
(* window's ticks: none that is out of it, each that is in it once         *)
(* (flowguard.cpp, rotate, record and sum).                                *)
THEOREM WindowsHold == Spec => []WindowExact
<1>1. WindowInv => WindowHolds
  BY DEF WindowInv, ActorPart, WindowHolds
<1>2. WindowInv => WindowExact
  <2> SUFFICES ASSUME WindowInv PROVE WindowExact
    OBVIOUS
  <2> QED
    BY <1>1, WindowSums, Zenon DEF WindowExact
<1> QED
  BY <1>2, WindowInit, WindowStep, PTL DEF Spec

(* However late the readings and for any number of slots: the slot of a    *)
(* second that trafficPerMin shows never holds a hit of another second,    *)
(* and the sum it answers is never more than the hits of the last minute;  *)
(* neither misses a hit if no reading came late (api.cpp, trafficHit and   *)
(* trafficPerMin).                                                         *)
THEOREM HitsCounted == Spec => []TrafficExact
<1>1. WindowInv => now \in Times
  BY DEF WindowInv
<1>2. TrafficInv /\ now \in Times => TrafficExact
  BY MinuteSums, Zenon
<1> QED
  BY <1>1, <1>2, WindowInit, WindowStep, TrafficInit, TrafficStep, PTL DEF Spec

(***************************************************************************)
(* The flow guard's alerts.                                                *)
(***************************************************************************)
AlertRecord == [actor : Actors, kind : Kinds, ts : Nat]

(* What raise() reads and writes of an actor. *)
Memory(a) ==
    /\ a.lastSeen \in Nat /\ a.lastAlert \in Nat /\ a.penaltyUntil \in Nat
    /\ a.lastAlertKind \in Kinds \cup {""}

Latest(alerts, i) ==
    \A j \in 1 .. Len(alerts) : i < j => alerts[j].actor # alerts[i].actor

(* The actor of an alert remembers it, or a later one, unless the alert is *)
(* so old that the actor may have been forgotten since.                    *)
Remembered(alerts, i, a) ==
    \/ alerts[i].ts + ActorIdle < now + Lag
    \/ /\ alerts[i].ts <= a.lastSeen + Lag /\ alerts[i].ts <= a.lastAlert + Lag
       /\ a.penaltyUntil = a.lastAlert + PenaltyTime
       /\ Latest(alerts, i) => a.lastAlertKind = alerts[i].kind /\ a.lastAlert = alerts[i].ts

Another(alerts, i, j) ==
    \E m \in i .. j : alerts[m].actor = alerts[i].actor /\ alerts[m].kind # alerts[i].kind

Apart(alerts) ==
    \A i, j \in 1 .. Len(alerts) :
        /\ i < j /\ alerts[i].actor = alerts[j].actor /\ alerts[i].kind = alerts[j].kind
        /\ alerts[j].ts - alerts[i].ts < CoolDown
        => Another(alerts, i, j)

Paced(alerts, who) ==
    /\ alerts \in Seq(AlertRecord)
    /\ \A i \in 1 .. Len(alerts) : /\ alerts[i].ts <= now
                                   /\ Remembered(alerts, i, who[alerts[i].actor])
    /\ Apart(alerts)

PaceInv ==
    /\ \A a \in Actors : Memory(mActors[a])
    /\ Paced(mAlerts, mActors) /\ Len(mAlerts) <= AlertCap

LEMMA PaceNumbers ==
    /\ CoolDown \in Nat /\ ActorIdle \in Nat /\ Lag \in Nat /\ PenaltyTime \in Nat
    /\ AlertCap \in Nat /\ MaxTime \in Nat
    /\ CoolDown + 2 * Lag <= ActorIdle /\ PenaltyTime + Lag <= ActorIdle
BY GuardAssumption

(* An alert that is older than its actor is remembered stays so. *)
LEMMA StaysOld ==
    \A ts, seenAt, at, later \in Nat :
        /\ at <= later => (ts + ActorIdle < at + Lag => ts + ActorIdle < later + Lag)
        /\ ts <= seenAt + Lag /\ seenAt + ActorIdle < at => ts + ActorIdle < at + Lag
<1> DEFINE idle == ActorIdle
           slack == Lag
<1>1. idle \in Nat /\ slack \in Nat
  BY PaceNumbers
<1> HIDE DEF idle, slack
<1>2. \A ts, seenAt, at, later \in Nat :
        /\ at <= later => (ts + idle < at + slack => ts + idle < later + slack)
        /\ ts <= seenAt + slack /\ seenAt + idle < at => ts + idle < at + slack
  BY <1>1
<1> QED
  BY <1>2 DEF idle, slack

LEMMA ReadingNumbers ==
    ASSUME now \in Times, NEW t \in Readings
    PROVE  t \in Nat /\ now \in Nat /\ t <= now /\ now <= t + Lag
BY PaceNumbers DEF Readings, Times

(* An alert that is raised comes late enough after the last of its kind.   *)
LEMMA AppendKeeps ==
    ASSUME now \in Times, NEW t \in Readings, NEW name \in Actors, NEW kind \in Kinds,
           NEW alerts, NEW who, Paced(alerts, who), Memory(who[name]),
           ~(who[name].lastAlertKind = kind /\ t - who[name].lastAlert < CoolDown),
           NEW others, \A x \in Actors : x # name => others[x] = who[x],
           others[name].lastSeen = t, others[name].lastAlert = t,
           others[name].lastAlertKind = kind, others[name].penaltyUntil = t + PenaltyTime
    PROVE  Paced(Append(alerts, [actor |-> name, kind |-> kind, ts |-> t]), others)
<1> DEFINE al == [actor |-> name, kind |-> kind, ts |-> t]
           more == Append(alerts, al)
           n == Len(alerts)
<1>1. t \in Nat /\ now \in Nat /\ t <= now /\ now <= t + Lag
  BY ReadingNumbers
<1>2. al \in AlertRecord /\ al.actor = name /\ al.kind = kind /\ al.ts = t
  BY <1>1 DEF AlertRecord
<1>3. alerts \in Seq(AlertRecord) /\ n \in Nat
  BY DEF Paced
<1> HIDE DEF al
<1>4. /\ more \in Seq(AlertRecord) /\ Len(more) = n + 1 /\ more[n + 1] = al
      /\ \A i \in 1 .. n : more[i] = alerts[i] /\ alerts[i] \in AlertRecord
  BY <1>2, <1>3
<1> HIDE DEF more, n
<1>5. ASSUME NEW i \in 1 .. n
      PROVE  /\ alerts[i].ts \in Nat /\ alerts[i].ts <= now /\ alerts[i].actor \in Actors
             /\ Remembered(alerts, i, who[alerts[i].actor])
  BY <1>4 DEF Paced, AlertRecord, n
<1>6. ASSUME NEW i \in 1 .. n + 1
      PROVE  more[i].ts <= now /\ Remembered(more, i, others[more[i].actor])
  <2>1. CASE i = n + 1
    <3>1. more[i].ts = t /\ more[i].actor = name /\ more[i].kind = kind
      BY <1>2, <1>4, <2>1
    <3> QED
      BY <1>1, <3>1, PaceNumbers DEF Remembered
  <2>2. CASE i # n + 1 /\ alerts[i].actor # name
    <3>1. i \in 1 .. n /\ more[i] = alerts[i]
      BY <1>3, <1>4, <2>2
    <3>2. others[more[i].actor] = who[alerts[i].actor]
      BY <1>5, <2>2, <3>1
    <3>3. Latest(more, i) => Latest(alerts, i)
      <4> SUFFICES ASSUME Latest(more, i), NEW j \in 1 .. n, i < j
                   PROVE  alerts[j].actor # alerts[i].actor
        BY DEF Latest, n
      <4>1. j \in 1 .. Len(more) /\ more[j] = alerts[j]
        BY <1>3, <1>4
      <4> QED
        BY <3>1, <4>1 DEF Latest
    <3> QED
      BY <1>5, <3>1, <3>2, <3>3 DEF Remembered
  <2>3. CASE i # n + 1 /\ alerts[i].actor = name
    <3>1. i \in 1 .. n /\ more[i] = alerts[i]
      BY <1>3, <1>4, <2>3
    <3>2. ~Latest(more, i)
      <4>1. n + 1 \in 1 .. Len(more) /\ i < n + 1 /\ more[n + 1].actor = more[i].actor
        BY <1>2, <1>3, <1>4, <2>3, <3>1
      <4> QED
        BY <4>1 DEF Latest
    <3>3. more[i].ts <= t + Lag /\ more[i].ts <= now
      BY <1>1, <1>5, <3>1, PaceNumbers
    <3> QED
      BY <2>3, <3>1, <3>2, <3>3 DEF Remembered
  <2> QED
    BY <2>1, <2>2, <2>3
<1>7. ASSUME NEW i \in 1 .. n, alerts[i].actor = name, alerts[i].kind = kind,
             t - alerts[i].ts < CoolDown
      PROVE  \E m \in i .. n : alerts[m].actor = name /\ alerts[m].kind # kind
  <2> SUFFICES ASSUME \A m \in i .. n : alerts[m].actor = name => alerts[m].kind = kind
               PROVE  FALSE
    OBVIOUS
  <2> DEFINE S == {m \in i .. n : alerts[m].actor = name}
             l == Max(S)
  <2>1. IsFiniteSet(S) /\ S \subseteq Nat /\ i \in S
    <3>1. IsFiniteSet(i .. n) /\ S \subseteq i .. n /\ i .. n \subseteq Nat
      BY <1>3, FS_Interval
    <3>2. i \in S
      BY <1>3, <1>7
    <3> HIDE DEF S
    <3> QED
      BY <3>1, <3>2, FS_Subset
  <2>2. l \in S /\ \A m \in S : l >= m
    <3> HIDE DEF S
    <3> QED
      BY <2>1, LargestElement
  <2> HIDE DEF l
  <2>3. l \in 1 .. n /\ i <= l /\ alerts[l].actor = name /\ alerts[l].kind = kind
    BY <1>3, <2>2
  <2>4. Latest(alerts, l)
    <3> SUFFICES ASSUME NEW j \in 1 .. n, l < j PROVE alerts[j].actor # name
      BY <2>3 DEF Latest, n
    <3> QED
      BY <1>3, <2>2, <2>3
  <2>5. t - alerts[l].ts >= CoolDown
    <3>1. Remembered(alerts, l, who[name]) /\ alerts[l].ts \in Nat
      BY <1>5, <2>3
    <3>2. CASE alerts[l].ts + ActorIdle < now + Lag
      BY <1>1, <3>1, <3>2, PaceNumbers
    <3>3. CASE who[name].lastAlertKind = kind /\ who[name].lastAlert = alerts[l].ts
      BY <1>1, <3>1, <3>3, PaceNumbers
    <3> QED
      BY <2>3, <2>4, <3>1, <3>2, <3>3 DEF Remembered
  <2>6. alerts[l].ts \in Nat /\ alerts[i].ts \in Nat
    BY <1>5, <2>3
  <2>7. i # l
    BY <1>1, <1>7, <2>5, <2>6, PaceNumbers
  <2>8. alerts[l].ts - alerts[i].ts >= CoolDown
    <3>1. ~Another(alerts, i, l)
      BY <1>3, <1>7, <2>3 DEF Another
    <3>2. ~(alerts[l].ts - alerts[i].ts < CoolDown)
      BY <1>3, <1>7, <2>3, <2>7, <3>1 DEF Paced, Apart, n
    <3> QED
      BY <2>6, <3>2, PaceNumbers
  <2> QED
    BY <1>1, <1>7, <2>5, <2>8, <2>6, PaceNumbers
<1>8. Apart(more)
  <2> SUFFICES ASSUME NEW i \in 1 .. n + 1, NEW j \in 1 .. n + 1, i < j,
                      more[i].actor = more[j].actor, more[i].kind = more[j].kind,
                      more[j].ts - more[i].ts < CoolDown
               PROVE  Another(more, i, j)
    BY <1>4 DEF Apart
  <2>1. i \in 1 .. n /\ more[i] = alerts[i]
    BY <1>3, <1>4
  <2>2. CASE j # n + 1
    <3>1. j \in 1 .. n /\ more[j] = alerts[j]
      BY <1>3, <1>4, <2>2
    <3>2. Another(alerts, i, j)
      BY <2>1, <3>1 DEF Paced, Apart, n
    <3>3. \A m \in i .. j : more[m] = alerts[m]
      BY <1>3, <1>4, <3>1
    <3> QED
      BY <2>1, <3>2, <3>3 DEF Another
  <2>3. CASE j = n + 1
    <3>1. alerts[i].actor = name /\ alerts[i].kind = kind /\ t - alerts[i].ts < CoolDown
      BY <1>2, <1>4, <2>1, <2>3
    <3>2. PICK m \in i .. n : alerts[m].actor = name /\ alerts[m].kind # kind
      BY <1>7, <2>1, <3>1
    <3>3. m \in i .. j /\ more[m] = alerts[m]
      BY <1>3, <1>4, <2>1, <2>3
    <3> QED
      BY <2>1, <3>1, <3>2, <3>3 DEF Another
  <2> QED
    BY <2>2, <2>3
<1> QED
  BY <1>4, <1>6, <1>8 DEF Paced, more, al

LEMMA TailKeeps ==
    ASSUME NEW alerts, NEW who, Paced(alerts, who), Len(alerts) > 0
    PROVE  Paced(Tail(alerts), who) /\ Len(Tail(alerts)) = Len(alerts) - 1
<1> DEFINE n == Len(alerts)
           rest == Tail(alerts)
<1>1. alerts \in Seq(AlertRecord) /\ n \in Nat /\ alerts # <<>>
  BY DEF Paced
<1>2. /\ rest \in Seq(AlertRecord) /\ Len(rest) = n - 1
      /\ \A i \in 1 .. n - 1 : rest[i] = alerts[i + 1] /\ i + 1 \in 1 .. n
  BY <1>1
<1> HIDE DEF n, rest
<1>3. ASSUME NEW i \in 1 .. n - 1
      PROVE  rest[i].ts <= now /\ Remembered(rest, i, who[rest[i].actor])
  <2>1. rest[i] = alerts[i + 1] /\ i + 1 \in 1 .. n
    BY <1>2
  <2>2. alerts[i + 1].ts <= now /\ Remembered(alerts, i + 1, who[alerts[i + 1].actor])
    BY <2>1 DEF Paced, n
  <2>3. Latest(rest, i) => Latest(alerts, i + 1)
    <3> SUFFICES ASSUME Latest(rest, i), NEW j \in 1 .. n, i + 1 < j
                 PROVE  alerts[j].actor # alerts[i + 1].actor
      BY DEF Latest, n
    <3>1. j - 1 \in 1 .. n - 1 /\ i < j - 1 /\ rest[j - 1] = alerts[(j - 1) + 1] /\ (j - 1) + 1 = j
      BY <1>1, <1>2
    <3> QED
      BY <1>2, <2>1, <3>1 DEF Latest
  <2> QED
    BY <2>1, <2>2, <2>3 DEF Remembered
<1>4. Apart(rest)
  <2> SUFFICES ASSUME NEW i \in 1 .. n - 1, NEW j \in 1 .. n - 1, i < j,
                      rest[i].actor = rest[j].actor, rest[i].kind = rest[j].kind,
                      rest[j].ts - rest[i].ts < CoolDown
               PROVE  Another(rest, i, j)
    BY <1>2 DEF Apart
  <2>1. /\ rest[i] = alerts[i + 1] /\ rest[j] = alerts[j + 1]
        /\ i + 1 \in 1 .. n /\ j + 1 \in 1 .. n /\ i + 1 < j + 1
    BY <1>2
  <2>2. Another(alerts, i + 1, j + 1)
    BY <2>1 DEF Paced, Apart, n
  <2>3. PICK m \in i + 1 .. j + 1 : /\ alerts[m].actor = alerts[i + 1].actor
                                   /\ alerts[m].kind # alerts[i + 1].kind
    BY <2>2 DEF Another
  <2>4. m - 1 \in i .. j /\ m - 1 \in 1 .. n - 1 /\ (m - 1) + 1 = m
    BY <1>1, <2>1
  <2>5. rest[m - 1] = alerts[m]
    BY <1>2, <2>4
  <2> QED
    BY <2>1, <2>3, <2>4, <2>5 DEF Another
<1> QED
  BY <1>2, <1>3, <1>4 DEF Paced, n, rest

(* What one rule leaves of the actor and of the alerts. *)
Verdicts(name, t, counted, others) ==
    {s \in [actor : [win : {counted.win}, winStart : {counted.winStart}, lastSeen : {t},
                     penaltyUntil : Nat, lastAlert : Nat, lastAlertKind : Kinds \cup {""}],
            alerts : Seq(AlertRecord)] :
        /\ Paced(s.alerts, [x \in Actors |-> IF x = name THEN s.actor ELSE others[x]])
        /\ Len(s.alerts) <= AlertCap}

LEMMA JudgePaces ==
    ASSUME now \in Times, NEW t \in Readings, NEW name \in Actors, NEW kind \in Kinds,
           NEW counted, NEW others, NEW s \in Verdicts(name, t, counted, others)
    PROVE  Judge(name, t, counted, s, kind) \in Verdicts(name, t, counted, others)
<1> DEFINE a == s.actor
           al == [actor |-> name, kind |-> kind, ts |-> t]
           more == Append(s.alerts, al)
           kept == IF Len(more) > AlertCap THEN Tail(more) ELSE more
           b == [a EXCEPT !.lastAlert = t, !.lastAlertKind = kind,
                          !.penaltyUntil = t + PenaltyTime]
           who == [x \in Actors |-> IF x = name THEN a ELSE others[x]]
           later == [x \in Actors |-> IF x = name THEN b ELSE others[x]]
           Actor == [win : {counted.win}, winStart : {counted.winStart}, lastSeen : {t},
                     penaltyUntil : Nat, lastAlert : Nat, lastAlertKind : Kinds \cup {""}]
<1>1. /\ a \in Actor /\ s.alerts \in Seq(AlertRecord) /\ Paced(s.alerts, who)
      /\ Len(s.alerts) <= AlertCap
  BY DEF Verdicts
<1>2. CASE Judge(name, t, counted, s, kind) = s
  BY <1>2
<1>3. CASE Judge(name, t, counted, s, kind) # s
  <2>1. /\ ~(a.lastAlertKind = kind /\ t - a.lastAlert < CoolDown)
        /\ Judge(name, t, counted, s, kind) = [actor |-> b, alerts |-> kept]
    BY <1>3, Zenon DEF Judge, Raise
  <2>2. t \in Nat /\ t + PenaltyTime \in Nat
    BY ReadingNumbers, PaceNumbers
  <2>3. /\ b \in Actor /\ b.lastSeen = t /\ b.lastAlert = t
        /\ b.lastAlertKind = kind /\ b.penaltyUntil = t + PenaltyTime
    BY <1>1, <2>2
  <2>4. /\ who[name] = a /\ later[name] = b
        /\ \A x \in Actors : x # name => later[x] = who[x]
    OBVIOUS
  <2>5. Memory(who[name])
    BY <1>1, <2>2, <2>4 DEF Memory
  <2> HIDE DEF a, b, who, later, Actor
  <2>6. Paced(more, later)
    BY <1>1, <2>1, <2>3, <2>4, <2>5, AppendKeeps
  <2>7. Len(more) = Len(s.alerts) + 1 /\ Len(s.alerts) \in Nat
    BY <1>1
  <2> HIDE DEF more
  <2>8. Paced(kept, later) /\ Len(kept) <= AlertCap
    <3>1. CASE Len(more) > AlertCap
      <4>1. Paced(Tail(more), later) /\ Len(Tail(more)) = Len(more) - 1
        BY <2>6, <2>7, TailKeeps
      <4> QED
        BY <1>1, <2>7, <3>1, <4>1, PaceNumbers
    <3>2. CASE ~(Len(more) > AlertCap)
      BY <1>1, <2>6, <2>7, <3>2, PaceNumbers
    <3> QED
      BY <3>1, <3>2
  <2>9. kept \in Seq(AlertRecord)
    BY <2>8 DEF Paced
  <2> HIDE DEF kept
  <2>10. [actor |-> b, alerts |-> kept] \in Verdicts(name, t, counted, others)
    <3> DEFINE r == [actor |-> b, alerts |-> kept]
    <3>1. r.actor = b /\ r.alerts = kept /\ r \in [actor : Actor, alerts : Seq(AlertRecord)]
      BY <2>3, <2>9
    <3>2. Paced(r.alerts, [x \in Actors |-> IF x = name THEN r.actor ELSE others[x]])
      BY <2>8, <3>1 DEF later
    <3> HIDE DEF r
    <3> QED
      BY <2>8, <3>1, <3>2 DEF Verdicts, r, Actor
  <2> QED
    BY <2>1, <2>10
<1> QED
  BY <1>2, <1>3

(* Forgetting and counting leave the alerts remembered. *)
LEMMA CountPaces ==
    ASSUME now \in Times, NEW t \in Readings, NEW name \in Actors, PaceInv,
           NEW counted, counted.lastSeen = t,
           LET found == IF name \in Forgotten(t) THEN NoActor ELSE mActors[name]
           IN  /\ counted.lastAlert = found.lastAlert
               /\ counted.lastAlertKind = found.lastAlertKind
               /\ counted.penaltyUntil = found.penaltyUntil
    PROVE  /\ Memory(counted)
           /\ Paced(mAlerts, [x \in Actors |->
                 IF x = name THEN counted
                 ELSE IF x \in Forgotten(t) THEN NoActor ELSE mActors[x]])
<1> DEFINE who == [x \in Actors |->
                    IF x = name THEN counted
                    ELSE IF x \in Forgotten(t) THEN NoActor ELSE mActors[x]]
<1>1. t \in Nat /\ now \in Nat /\ t <= now /\ now <= t + Lag
  BY ReadingNumbers
<1>2. Memory(NoActor)
  BY DEF Memory, NoActor
<1>3. Memory(counted)
  BY <1>1, <1>2 DEF PaceInv, Memory
<1>4. ASSUME NEW i \in 1 .. Len(mAlerts)
      PROVE  Remembered(mAlerts, i, who[mAlerts[i].actor])
  <2> DEFINE x == mAlerts[i].actor
  <2>1. mAlerts[i] \in AlertRecord
    BY DEF PaceInv, Paced
  <2>2. x \in Actors /\ mAlerts[i].ts \in Nat /\ mAlerts[i].ts <= now
        /\ Remembered(mAlerts, i, mActors[x]) /\ Memory(mActors[x])
    BY <2>1 DEF PaceInv, Paced, AlertRecord
  <2> HIDE DEF x
  <2>3. CASE x \in Forgotten(t)
    <3>1. t - mActors[x].lastSeen > ActorIdle /\ mActors[x].lastSeen \in Nat
      BY <2>2, <2>3 DEF Forgotten, Memory
    <3>2. mAlerts[i].ts + ActorIdle < now + Lag
      <4> DEFINE ts == mAlerts[i].ts
                 idle == mActors[x].lastSeen
      <4>1. ts \in Nat /\ idle \in Nat /\ t - idle > ActorIdle
        BY <2>2, <3>1
      <4>2. ts + ActorIdle < now + Lag \/ ts <= idle + Lag
        BY <2>2 DEF Remembered
      <4> HIDE DEF ts, idle
      <4>3. ts + ActorIdle < now + Lag
        <5>1. idle + ActorIdle < now
          BY <1>1, <4>1, PaceNumbers
        <5> QED
          BY <1>1, <4>1, <4>2, <5>1, StaysOld
      <4> QED
        BY <4>3 DEF ts
    <3> QED
      BY <3>2 DEF Remembered
  <2>4. CASE x \notin Forgotten(t) /\ x = name
    <3>1. /\ who[x].lastSeen = t /\ who[x].lastAlert = mActors[x].lastAlert
          /\ who[x].lastAlertKind = mActors[x].lastAlertKind
          /\ who[x].penaltyUntil = mActors[x].penaltyUntil
      BY <2>2, <2>4
    <3>2. mAlerts[i].ts <= t + Lag
      BY <1>1, <2>2, PaceNumbers
    <3> HIDE DEF who
    <3> QED
      BY <2>2, <3>1, <3>2 DEF Remembered, x
  <2>5. CASE x \notin Forgotten(t) /\ x # name
    <3>1. who[x] = mActors[x]
      BY <2>2, <2>5
    <3> QED
      BY <2>2, <3>1 DEF x
  <2> QED
    BY <2>3, <2>4, <2>5
<1> HIDE DEF who
<1>5. Paced(mAlerts, who)
  BY <1>4 DEF PaceInv, Paced
<1> QED
  BY <1>3, <1>5 DEF who

LEMMA RecordPaces ==
    ASSUME WindowInv, PaceInv, NEW name \in Actors, NEW kind \in Kinds, NEW t \in Readings,
           Record(name, kind, t), now' = now
    PROVE  PaceInv'
<1> DEFINE gone == Forgotten(t)
           found == IF name \in gone THEN NoActor ELSE mActors[name]
           turned == Turned(found, t)
           counted == Counted(found, t, kind)
           base == [actor |-> counted, alerts |-> mAlerts]
           after == Judged(name, t, counted, base)
           actor == [counted EXCEPT !.penaltyUntil = after.actor.penaltyUntil,
                                    !.lastAlert = after.actor.lastAlert,
                                    !.lastAlertKind = after.actor.lastAlertKind]
           others == [x \in Actors |-> IF x \in gone THEN NoActor ELSE mActors[x]]
           D == Verdicts(name, t, counted, others)
<1>1. /\ mActors' = [x \in Actors |->
              IF x = name THEN actor ELSE IF x \in gone THEN NoActor ELSE mActors[x]]
      /\ mAlerts' = after.alerts
  BY ZenonT(30) DEF Record, Judged, Turned, Counted
<1>2. /\ now \in Times /\ ActorPart(found, seen[name])
      /\ seen[name] \in [Kinds -> [Times -> Nat]]
  BY ForgottenFits DEF WindowInv
<1>3. /\ ActorRecord(counted) /\ counted.lastSeen = t
      /\ counted.penaltyUntil = found.penaltyUntil
      /\ counted.lastAlert = found.lastAlert
      /\ counted.lastAlertKind = found.lastAlertKind
  <2> DEFINE held == [seen[name] EXCEPT ![kind][turned.winStart] = @ + 1]
  <2>1. now \in Times /\ ActorPart(found, seen[name])
    BY <1>2
  <2>2. seen[name] \in [Kinds -> [Times -> Nat]]
    BY <1>2
  <2>3. turned.winStart \in Times /\ ActorPart(counted, held)
    <3> HIDE DEF found, gone
    <3> QED
      BY <2>1, <2>2, CountedFits
  <2>4. /\ counted.lastSeen = t /\ counted.penaltyUntil = found.penaltyUntil
        /\ counted.lastAlert = found.lastAlert
        /\ counted.lastAlertKind = found.lastAlertKind
    <3>1. ActorRecord(found)
      BY <2>1 DEF ActorPart
    <3> HIDE DEF found
    <3> QED
      BY <3>1, CountedLast
  <2> HIDE DEF counted, found, held, turned
  <2> QED
    BY <2>3, <2>4 DEF ActorPart
<1> HIDE DEF counted
<1>4. /\ Memory(counted)
      /\ Paced(mAlerts, [x \in Actors |->
            IF x = name THEN counted ELSE IF x \in gone THEN NoActor ELSE mActors[x]])
  BY <1>2, <1>3, CountPaces
<1> HIDE DEF gone, found
<1>5. base \in D
  <2>1. [x \in Actors |-> IF x = name THEN base.actor ELSE others[x]] =
          [x \in Actors |->
            IF x = name THEN counted ELSE IF x \in gone THEN NoActor ELSE mActors[x]]
    OBVIOUS
  <2>2. counted \in [win : {counted.win}, winStart : {counted.winStart}, lastSeen : {t},
                     penaltyUntil : Nat, lastAlert : Nat, lastAlertKind : Kinds \cup {""}]
    BY <1>3, <1>4 DEF ActorRecord, Memory
  <2>3. base.actor = counted /\ base.alerts = mAlerts
    OBVIOUS
  <2>4. mAlerts \in Seq(AlertRecord) /\ Len(mAlerts) <= AlertCap
    BY DEF PaceInv, Paced
  <2>5. base \in [actor : [win : {counted.win}, winStart : {counted.winStart}, lastSeen : {t},
                           penaltyUntil : Nat, lastAlert : Nat,
                           lastAlertKind : Kinds \cup {""}],
                  alerts : Seq(AlertRecord)]
    BY <2>2, <2>4
  <2>6. Paced(base.alerts, [x \in Actors |-> IF x = name THEN base.actor ELSE others[x]])
    <3> HIDE DEF others, base
    <3> QED
      BY <1>4, <2>1, <2>3
  <2> HIDE DEF base, others
  <2> QED
    BY <2>3, <2>4, <2>5, <2>6 DEF Verdicts
<1>6. after \in D
  <2>1. Rules \in Seq(Kinds)
    BY GuardAssumption
  <2>2. \A s \in D, k \in Kinds : Judge(name, t, counted, s, k) \in D
    <3> HIDE DEF others
    <3> QED
      BY <1>2, JudgePaces
  <2> HIDE DEF D, base
  <2> QED
    BY <1>5, <2>1, <2>2, JudgeKeeps
<1> HIDE DEF after, base
<1>7. /\ Paced(after.alerts, [x \in Actors |-> IF x = name THEN after.actor ELSE others[x]])
      /\ Len(after.alerts) <= AlertCap /\ after.actor.lastSeen = t
      /\ after.actor.penaltyUntil \in Nat /\ after.actor.lastAlert \in Nat
      /\ after.actor.lastAlertKind \in Kinds \cup {""}
  BY <1>6 DEF Verdicts
<1>8. /\ actor.lastSeen = t /\ actor.penaltyUntil = after.actor.penaltyUntil
      /\ actor.lastAlert = after.actor.lastAlert
      /\ actor.lastAlertKind = after.actor.lastAlertKind
  <2> DEFINE w == counted.win
             start == counted.winStart
             until == counted.penaltyUntil
             alert == counted.lastAlert
             of == counted.lastAlertKind
  <2> HIDE DEF w, start, until, alert, of
  <2>1. counted = [win |-> w, winStart |-> start, lastSeen |-> t,
                   penaltyUntil |-> until, lastAlert |-> alert, lastAlertKind |-> of]
    BY <1>3 DEF ActorRecord, w, start, until, alert, of
  <2> QED
    BY <2>1
<1> HIDE DEF actor
<1>9. ASSUME NEW a \in Actors PROVE Memory(mActors'[a])
  <2>1. t \in Nat
    BY <1>2, ReadingNumbers
  <2>2. Memory(NoActor)
    BY DEF Memory, NoActor
  <2>3. Memory(mActors[a]) /\ Memory(actor)
    BY <1>7, <1>8, <2>1 DEF PaceInv, Memory
  <2> QED
    BY <1>1, <2>2, <2>3
<1>10. Paced(mAlerts', mActors')
  <2> DEFINE who == [x \in Actors |-> IF x = name THEN after.actor ELSE others[x]]
  <2>1. ASSUME NEW i \in 1 .. Len(after.alerts)
        PROVE  Remembered(after.alerts, i, mActors'[after.alerts[i].actor])
    <3> DEFINE x == after.alerts[i].actor
    <3>1. x \in Actors /\ Remembered(after.alerts, i, who[x])
      <4>1. after.alerts[i] \in AlertRecord
        <5>1. after.alerts \in Seq(AlertRecord)
          BY <1>7 DEF Paced
        <5> QED
          BY <5>1, <2>1
      <4>2. Remembered(after.alerts, i, who[x])
        BY <1>7 DEF Paced
      <4> QED
        BY <4>1, <4>2 DEF AlertRecord
    <3> HIDE DEF x
    <3>2. CASE x = name
      <4>1. who[x] = after.actor /\ mActors'[x] = actor
        BY <1>1, <3>1, <3>2
      <4> HIDE DEF who
      <4> QED
        BY <1>7, <1>8, <3>1, <4>1 DEF Remembered, x
    <3>3. CASE x # name
      <4>1. who[x] = mActors'[x]
        BY <1>1, <3>1, <3>3
      <4> HIDE DEF who
      <4> QED
        BY <3>1, <4>1 DEF x
    <3> QED
      BY <3>2, <3>3
  <2> HIDE DEF who
  <2> QED
    BY <1>1, <1>7, <2>1 DEF Paced
<1>11. Paced(mAlerts, mActors)'
  BY <1>10, now' = now DEF Paced, Remembered, Apart, Another, Latest
<1>12. Len(mAlerts') <= AlertCap
  BY <1>1, <1>7
<1> QED
  BY <1>9, <1>11, <1>12 DEF PaceInv, Memory

LEMMA PaceInit == Init => PaceInv
<1> SUFFICES ASSUME Init PROVE PaceInv
  OBVIOUS
<1>1. mActors = [a \in Actors |-> NoActor] /\ mAlerts = <<>>
  BY DEF Init, GuardInit
<1>2. Memory(NoActor)
  BY DEF Memory, NoActor
<1>3. mAlerts \in Seq(AlertRecord) /\ Len(mAlerts) = 0 /\ 0 <= AlertCap
  BY <1>1, PaceNumbers
<1>4. Apart(mAlerts)
  BY <1>3 DEF Apart
<1> QED
  BY <1>1, <1>2, <1>3, <1>4 DEF PaceInv, Paced

LEMMA PaceStep == WindowInv /\ PaceInv /\ [Next]_vars => PaceInv'
<1> SUFFICES ASSUME WindowInv, PaceInv, [Next]_vars PROVE PaceInv'
  OBVIOUS
<1>1. ASSUME UNCHANGED flows, now' = now \/ now' = now + 1
      PROVE  PaceInv'
  <2>1. now \in Nat /\ now' \in Nat /\ now <= now'
    BY <1>1, TimesCount DEF WindowInv
  <2>2. mActors' = mActors /\ mAlerts' = mAlerts
    BY <1>1 DEF flows
  <2>3. ASSUME NEW i \in 1 .. Len(mAlerts)
        PROVE  /\ mAlerts[i].ts <= now'
               /\ Remembered(mAlerts, i, mActors[mAlerts[i].actor])'
    <3>1. mAlerts[i] \in AlertRecord
      BY DEF PaceInv, Paced
    <3>2. mAlerts[i].ts \in Nat
      BY <3>1 DEF AlertRecord
    <3>3. mAlerts[i].ts <= now /\ Remembered(mAlerts, i, mActors[mAlerts[i].actor])
      BY DEF PaceInv, Paced
    <3>4. mAlerts[i].ts + ActorIdle < now + Lag => mAlerts[i].ts + ActorIdle < now' + Lag
      <4> DEFINE ts == mAlerts[i].ts
      <4>1. ts \in Nat
        BY <3>2
      <4> HIDE DEF ts
      <4>2. ts + ActorIdle < now + Lag => ts + ActorIdle < now' + Lag
        BY <2>1, <4>1, StaysOld
      <4> QED
        BY <4>2 DEF ts
    <3> QED
      BY <2>1, <2>2, <3>2, <3>3, <3>4 DEF Remembered, Latest
  <2>4. Apart(mAlerts)'
    BY <2>2 DEF PaceInv, Paced, Apart, Another
  <2>5. mAlerts' \in Seq(AlertRecord) /\ Len(mAlerts') <= AlertCap
    BY <2>2 DEF PaceInv, Paced
  <2>6. \A a \in Actors : Memory(mActors'[a])
    BY <2>2 DEF PaceInv
  <2> QED
    BY <2>2, <2>3, <2>4, <2>5, <2>6 DEF PaceInv, Paced, Memory
<1>2. CASE UNCHANGED <<flows, now>>
  BY <1>1, <1>2
<1>3. CASE RateStep
  <2>1. CASE Tick
    BY <1>1, <2>1 DEF Tick
  <2>2. CASE Call
    <3>1. now' = now
      BY <2>2 DEF Call
    <3>2. CASE UNCHANGED flows
      BY <1>2, <3>1, <3>2
    <3>3. CASE \E t \in Readings : TrafficHit(t)
      <4>1. PICK t \in Readings : TrafficHit(t)
        BY <3>3, Zenon
      <4>2. UNCHANGED flows
        BY <4>1, Zenon DEF TrafficHit
      <4> QED
        BY <3>2, <4>2
    <3>4. CASE \E k \in Keys, p \in {1, Penalty}, t \in Readings : Allow(k, p, t)
      <4>1. PICK k \in Keys, p \in {1, Penalty}, t \in Readings : Allow(k, p, t)
        BY <3>4, Zenon
      <4>2. UNCHANGED flows
        BY <4>1, Zenon DEF Allow
      <4> QED
        BY <3>2, <4>2
    <3>5. CASE \E a \in Actors, q \in Kinds, t \in Readings : Record(a, q, t)
      <4>1. PICK a \in Actors, q \in Kinds, t \in Readings : Record(a, q, t)
        BY <3>5, Zenon
      <4> QED
        BY <3>1, <4>1, RecordPaces
    <3> QED
      BY <2>2, <3>3, <3>4, <3>5, Zenon DEF Call
  <2> QED
    BY <1>3, <2>1, <2>2 DEF RateStep, GuardNext
<1> QED
  BY <1>2, <1>3 DEF Next, RequestStep, ConnectionStep, vars, guardVars

(* Whoever floods, whenever, and whoever the guard forgets meanwhile: the  *)
(* list keeps to its cap, the same alert of an actor comes again within    *)
(* the cool-down only after another of that actor's, and an alert          *)
(* throttles its actor until its penalty is over (flowguard.cpp, raise).   *)
THEOREM AlertsKept == Spec => []AlertsPaced
<1>1. WindowInv /\ PaceInv => AlertsPaced
  <2> SUFFICES ASSUME WindowInv, PaceInv PROVE AlertsPaced
    OBVIOUS
  <2>1. now \in Nat
    BY TimesCount DEF WindowInv
  <2>2. \A a \in Actors : mActors[a].lastAlertKind \in Kinds \cup {""}
    BY DEF PaceInv, Memory
  <2>3. Apart(mAlerts) /\ Len(mAlerts) <= AlertCap
    BY DEF PaceInv, Paced
  <2>4. ASSUME NEW i \in 1 .. Len(mAlerts), now + Lag < mAlerts[i].ts + PenaltyTime
        PROVE  mActors[mAlerts[i].actor].penaltyUntil > now
    <3> DEFINE a == mActors[mAlerts[i].actor]
    <3>1. mAlerts[i] \in AlertRecord
      BY DEF PaceInv, Paced
    <3>2. mAlerts[i].ts \in Nat /\ a.lastAlert \in Nat
      BY <3>1 DEF AlertRecord, PaceInv, Memory
    <3>3. Remembered(mAlerts, i, a)
      BY DEF PaceInv, Paced
    <3> HIDE DEF a
    <3>4. ~(mAlerts[i].ts + ActorIdle < now + Lag)
      BY <2>1, <2>4, <3>2, PaceNumbers
    <3>5. mAlerts[i].ts <= a.lastAlert + Lag /\ a.penaltyUntil = a.lastAlert + PenaltyTime
      BY <3>3, <3>4 DEF Remembered
    <3>6. a.penaltyUntil > now
      <4> DEFINE ts == mAlerts[i].ts
                 last == a.lastAlert
      <4>1. /\ ts \in Nat /\ last \in Nat /\ now + Lag < ts + PenaltyTime
            /\ ts <= last + Lag /\ a.penaltyUntil = last + PenaltyTime
        BY <2>4, <3>2, <3>5
      <4> HIDE DEF ts, last
      <4> QED
        BY <2>1, <4>1, PaceNumbers
    <3> QED
      BY <3>6 DEF a
  <2> QED
    BY <2>2, <2>3, <2>4 DEF AlertsPaced, Apart, Another
<1> QED
  BY <1>1, WindowInit, WindowStep, PaceInit, PaceStep, PTL DEF Spec

(* The whole promise of the rate limiter, the flow guard and the traffic   *)
(* counters, for every number of callers, rules and ticks.                 *)
THEOREM GuardKept == Spec => []GuardSound
<1>1. RateHeld /\ WindowExact /\ AlertsPaced /\ TrafficExact => GuardSound
  BY Zenon DEF GuardSound
<1> QED
  BY <1>1, RatesHeld, WindowsHold, AlertsKept, HitsCounted, PTL
=============================================================================
