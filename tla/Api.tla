-------------------------------- MODULE Api ---------------------------------
(***************************************************************************)
(* The request handlers (backend/src/api/api.cpp) over the accounts, the   *)
(* store and the engine.  Each of the three has a mutex of its own that no *)
(* handler holds across two calls, so a handler is cut at every call and   *)
(* requests on different serving threads interleave between them.  A call  *)
(* into the store is one step here (Store.tla cuts it further); folders,   *)
(* aliases, presence, metrics and the static files change nothing that the *)
(* properties speak of.                                                    *)
(***************************************************************************)
EXTENDS Accounts

CONSTANTS Deployments,   \* running deployments, and what is asked of them
          MaxRequests,   \* bound: requests sent in one behaviour
          MaxIds         \* bound: ids of captures and of sessions

VARIABLES deployment, up, req, call,
          domains,       \* mDomains, without the built-in domain
          pcaps,         \* mPcaps
          sessions,      \* mSessions of the store
          engine,        \* mSessions of the engine
          notes,         \* notes.md of a session: the request that wrote it
          nextPcap, nextSession, restarts,
          met,           \* requests that were in progress at the same time
          acked,         \* names whose account was acknowledged
          governed,      \* users.json has held an administrator
          firsts,        \* accounts made administrator for want of one
          unsaved,       \* requests whose failed save was not taken back
          torn,          \* domains that a restart left behind
          overwrote,     \* <<q, r>>: r wrote over notes of q it had not seen
          crossed        \* requests that touched another domain than theirs

store == <<domains, pcaps, sessions, nextPcap, nextSession>>
accountHistory == <<acked, governed, firsts>>
marks == <<overwrote, crossed>>
objects == <<store, engine, notes, marks>>
world == <<auth, accountHistory, objects, unsaved>>
apiVars == <<deployment, up, req, call, restarts, met, torn, world>>

Requests == 1 .. MaxRequests
Ids == 1 .. MaxIds
Seed == 0           \* the notes a session starts with; objects found at start

Objects == [id : Ids, domain : Domains, by : Requests \cup {Seed}]

Object(id, domain, by) == [id |-> id, domain |-> domain, by |-> by]

(* The endpoints; the first ones are an administrator's. *)
AdminOps == {"adminUsersPost", "adminUsersDelete", "domainsPost",
             "domainsDelete"}

Ops == AdminOps \cup
    {"register", "login", "logout", "domainUsersPost", "domainUsersDelete",
     "pcapsPost", "pcapDelete", "sessionsPost", "sessionDelete", "notesPut"}

(* What a client asks: the endpoint, its login, and what the body names. *)
Asks == [op : Ops, token : Tokens, name : Names, role : {"admin", "user"},
         domain : Domains, id : Ids, ids : SUBSET Ids, force : BOOLEAN]

TenantDomains == [id : Domains \ {DefaultDomain}, owner : Names]

Exists(doms, d) == d = DefaultDomain \/ \E x \in doms : x.id = d

(* Objects as the first start numbers them. *)
Numbered(set) ==
    /\ Cardinality(set) \in 0 .. MaxIds
    /\ \A o \in set : o.id =< Cardinality(set)
    /\ \A o, p \in set : o.id = p.id => o = p

(* What is there when a behaviour begins is in domains that exist. *)
ASSUME ApiAssumption ==
    /\ MaxRequests \in Nat /\ MaxIds \in Nat
    /\ \A d \in Deployments :
         /\ d.users \in [Names -> Accounts \cup {Absent}]
         /\ d.tokens \in [Tokens -> Names \cup {Unissued, Revoked}]
         /\ \A t \in Tokens : d.tokens[t] \in Names => d.users[d.tokens[t]] # Absent
         /\ d.domains \subseteq TenantDomains
         /\ \A x, y \in d.domains : x.id = y.id => x = y
         /\ d.pcaps \subseteq Objects /\ d.sessions \subseteq Objects
         /\ Numbered(d.pcaps) /\ Numbered(d.sessions)
         /\ \A o \in d.pcaps \cup d.sessions : Exists(d.domains, o.domain)
         /\ \A n \in Names : d.users[n] # Absent =>
              Exists(d.domains, d.users[n].domain)
         /\ d.offers # {} /\ d.offers \subseteq Asks
         /\ d.up \in BOOLEAN /\ d.closed \in BOOLEAN

InProgress(r) == call[r].at \notin {"new", "done"}

AtRest == \A r \in Requests : ~InProgress(r)

Stages == Ops \cup
    {"new", "check", "info", "create", "owner", "victim", "spare", "delete",
     "addDomain", "nameOwner", "rollBack", "evict", "listUsers", "moveUsers",
     "mayDelete", "removePcap", "addSession", "start", "find", "engineRemove",
     "storeRemove", "readNotes", "writeNotes", "done"}

(* Where a request is, and what its handler remembers from call to call:   *)
(* left and move are what a loop has yet to visit.                         *)
Calls == [at : Stages, user : Names \cup {""}, role : {"", "user", "admin"},
          domain : Domains \cup {""}, home : Domains \cup {""}, flag : BOOLEAN,
          base : Requests \cup {Seed}, made : Ids \cup {0},
          left : SUBSET Ids, move : SUBSET Names]

Idle == [at |-> "new", user |-> "", role |-> "", domain |-> "", home |-> "",
         flag |-> FALSE, base |-> Seed, made |-> 0, left |-> {}, move |-> {}]

Gone == MaxRequests + 1      \* no folder, hence no notes
-----------------------------------------------------------------------------
(* Steps of request r: on to place at, or answered. *)
Goto(r, at) == call' = [call EXCEPT ![r].at = at]

Answer(r) == call' = [call EXCEPT ![r] = [Idle EXCEPT !.at = "done"]]

Owner(d) == {x.owner : x \in {y \in domains : y.id = d}}

Owns(r) == Owner(call[r].domain) = {call[r].user}

Admin(r) == call[r].role = "admin"

(* Mutant: whose domain it is does not matter. *)
InAnyDomain(set, id, r) == \E o \in set : o.id = id

InDomain(set, id, r) == \E o \in set : o.id = id /\ o.domain = call[r].domain

(* History: r removes, copies or writes what is in set. *)
Touch(r, set) ==
    crossed' = IF \E o \in set : o.domain # call[r].domain
               THEN crossed \cup {r} ELSE crossed

(* A client bases its edit on any text an earlier GET may have shown it. *)
Bases == {Seed} \cup {r \in Requests : call[r].at = "done"}

Begin(r) ==
    /\ up
    /\ call[r].at = "new"
    /\ \A q \in Requests : q < r => call[q].at # "new"
    /\ \E ask \in deployment.offers, base \in Bases :
         /\ ask.op # "notesPut" => base = Seed
         /\ req' = [req EXCEPT ![r] = ask]
         /\ call' = [call EXCEPT ![r] = [Idle EXCEPT
                !.at = IF ask.op \in {"register", "login"} THEN ask.op
                       ELSE "check",
                !.base = base]]
    /\ met' = met \cup {{r, q} : q \in {x \in Requests : InProgress(x)}}
    /\ UNCHANGED world

(* routeApi: the token, then the account; both may have gone meanwhile. *)
Check(r) ==
    /\ call[r].at = "check"
    /\ LET user == tokens[req[r].token] IN
       IF user \in Names
       THEN call' = [call EXCEPT ![r].at = "info", ![r].user = user,
                                 ![r].home = users[user].domain]
       ELSE Answer(r)
    /\ UNCHANGED world

Handler(op) ==
    CASE op \in {"sessionDelete", "notesPut"} -> "find"
      [] op \in {"domainUsersPost", "domainUsersDelete"} -> "owner"
      [] OTHER -> op

(* The account; an empty domain reads "default". *)
Caller(r) ==
    LET info == users[call[r].user] IN
    [call[r] EXCEPT
        !.role = info.role,
        !.domain = IF info.domain = "" THEN DefaultDomain ELSE info.domain,
        !.left = req[r].ids,
        !.at = Handler(req[r].op)]

(* A caller who is no administrator may be refused by the rate limiter. *)
Info(r) ==
    /\ call[r].at = "info"
    /\ LET c == Caller(r) IN
       \/ /\ req[r].op \in AdminOps => c.role = "admin"
          /\ call' = [call EXCEPT ![r] = c]
       \/ c.role # "admin" /\ Answer(r)
    /\ UNCHANGED world
-----------------------------------------------------------------------------
(* Accounts. *)

(* An account n that r asked for is saved; removal ends the promise. *)
Acknowledge(n, ok) == acked' = IF ok THEN acked \cup {n} ELSE acked

Governed == governed' = (governed \/ Admins(usersFile') # {})

AskBootstrap(r) ==
    /\ call[r].at = "register"
    /\ IF deployment.closed /\ HasAdmin
       THEN Answer(r)
       ELSE call' = [call EXCEPT ![r].at = "create", ![r].flag = ~HasAdmin]
    /\ UNCHANGED world

RoleAsked(r) ==
    IF req[r].op = "register" THEN IF call[r].flag THEN "admin" ELSE "user"
    ELSE IF req[r].op = "adminUsersPost" THEN req[r].role
    ELSE "user"

DomainAsked(r) ==
    CASE req[r].op = "register" -> DefaultDomain
      [] req[r].op = "domainUsersPost" -> call[r].domain
      [] OTHER -> req[r].domain

CreateUser(r) ==
    /\ call[r].at = "create"
    /\ \E ok \in BOOLEAN :
         /\ RegisterUser(req[r].name, RoleAsked(r), DomainAsked(r), ok)
         /\ Acknowledge(req[r].name, ok)
    /\ firsts' = IF users' # users /\ req[r].op = "register" /\ call[r].flag
                 THEN firsts \cup {<<req[r].name, r>>} ELSE firsts
    /\ Governed
    /\ Answer(r)
    /\ UNCHANGED <<objects, unsaved>>

LogIn(r) ==
    /\ call[r].at = "login"
    /\ \E ok \in BOOLEAN : Login(req[r].name, req[r].token, ok)
    /\ Answer(r)
    /\ UNCHANGED <<accountHistory, objects, unsaved>>

LogOut(r) ==
    /\ call[r].at = "logout"
    /\ Logout(req[r].token)
    /\ Answer(r)
    /\ UNCHANGED <<accountHistory, objects, unsaved>>

(* POST /api/admin/users. *)
UserDomain(r) ==
    /\ call[r].at = "adminUsersPost"
    /\ IF Exists(domains, req[r].domain) THEN Goto(r, "create") ELSE Answer(r)
    /\ UNCHANGED world

(* DELETE of a user, by an administrator or once the owner's checks passed. *)
Delete(r) ==
    /\ call[r].at \in {"adminUsersDelete", "delete"}
    /\ IF req[r].name = call[r].user
       THEN UNCHANGED <<auth, accountHistory, crossed>>
       ELSE /\ \E ok \in BOOLEAN : DeleteUser(req[r].name, ok)
            /\ acked' = IF users' = users THEN acked ELSE acked \ {req[r].name}
            /\ firsts' = {f \in firsts : users'[f[1]] # Absent}
            /\ Governed
            /\ Touch(r, IF users' # users /\ call[r].at = "delete"
                        THEN {users[req[r].name]} ELSE {})
    /\ Answer(r)
    /\ UNCHANGED <<store, engine, notes, overwrote, unsaved>>

(* handleDomainApi: the owner of the caller's domain, or an administrator. *)
OwnerOnly(r) ==
    /\ call[r].at = "owner"
    /\ IF ~Owns(r) /\ ~Admin(r) THEN Answer(r)
       ELSE Goto(r, IF req[r].op = "domainUsersPost" THEN "create" ELSE "victim")
    /\ UNCHANGED world

Victim(r) ==
    /\ call[r].at = "victim"
    /\ LET victim == users[req[r].name] IN
       IF victim # Account("user", call[r].domain) \/ req[r].name = call[r].user
       THEN Answer(r)
       ELSE Goto(r, "spare")
    /\ UNCHANGED world

SpareOwner(r) ==
    /\ call[r].at = "spare"
    /\ IF Owner(call[r].domain) = {req[r].name} THEN Answer(r)
       ELSE Goto(r, "delete")
    /\ UNCHANGED world
-----------------------------------------------------------------------------
(* Domains. *)

(* POST /api/admin/domains: does the owner's account exist? *)
AskOwner(r) ==
    /\ call[r].at = "domainsPost"
    /\ LET exists == users[req[r].name] # Absent IN
       \/ call' = [call EXCEPT ![r].at = "addDomain", ![r].flag = exists]
       \/ ~exists /\ Answer(r)       \* no password for it was sent
    /\ UNCHANGED world

(* A failed save takes the domain back. *)
AddDomain(r) ==
    /\ call[r].at = "addDomain"
    /\ \/ /\ ~Exists(domains, req[r].domain)
          /\ domains' = domains \cup {[id |-> req[r].domain, owner |-> req[r].name]}
          /\ Goto(r, "nameOwner")
       \/ UNCHANGED domains /\ Answer(r)
    /\ UNCHANGED <<auth, accountHistory, pcaps, sessions, nextPcap, nextSession,
                   engine, notes, marks, unsaved>>

(* The owner is created in the domain or moved into it. *)
NameOwner(r) ==
    /\ call[r].at = "nameOwner"
    /\ \E ok \in BOOLEAN :
         /\ IF call[r].flag
            THEN SetDomain(req[r].name, req[r].domain, ok) /\ UNCHANGED acked
            ELSE RegisterUser(req[r].name, "user", req[r].domain, ok)
                 /\ Acknowledge(req[r].name, ok)
         /\ IF ok \/ call[r].flag THEN Answer(r) ELSE Goto(r, "rollBack")
         /\ unsaved' = IF ok \/ users' = users THEN unsaved ELSE unsaved \cup {r}
    /\ Governed
    /\ UNCHANGED <<firsts, objects>>

Holds(d) == {o \in pcaps \cup sessions : o.domain = d} # {}

Elsewhere(set, d) == {o \in set : o.domain # d}

(* Whatever the domain holds leaves the library and the disk with it. *)
DropDomain(d) ==
    /\ domains' = {x \in domains : x.id # d}
    /\ pcaps' = Elsewhere(pcaps, d)
    /\ sessions' = Elsewhere(sessions, d)
    /\ notes' = [i \in Ids |-> IF \E s \in sessions : s.id = i /\ s.domain = d
                               THEN Gone ELSE notes[i]]
    /\ UNCHANGED <<nextPcap, nextSession>>

(* The account could not be created: the domain goes unless it is used. *)
RollBack(r) ==
    /\ call[r].at = "rollBack"
    /\ IF Holds(req[r].domain) THEN UNCHANGED <<store, notes>>
       ELSE DropDomain(req[r].domain)
    /\ Answer(r)
    /\ UNCHANGED <<auth, accountHistory, engine, marks, unsaved>>

(* DELETE of a domain.  When the save fails the handler answers at once. *)
RemoveDomain(r) ==
    LET d == req[r].domain IN
    /\ call[r].at = "domainsDelete"
    /\ IF d = DefaultDomain \/ ~Exists(domains, d) \/ (~req[r].force /\ Holds(d))
       THEN Answer(r) /\ UNCHANGED <<store, notes, unsaved>>
       ELSE /\ DropDomain(d)
            /\ \/ /\ call' = [call EXCEPT ![r].at = "evict", ![r].left =
                               {s.id : s \in sessions \ Elsewhere(sessions, d)}]
                  /\ UNCHANGED unsaved
               \/ Answer(r) /\ unsaved' = unsaved \cup {r}
    /\ UNCHANGED <<auth, accountHistory, engine, marks>>

Evict(r) ==
    /\ call[r].at = "evict"
    /\ \/ \E i \in call[r].left :
            /\ engine' = {s \in engine : s.id # i}
            /\ call' = [call EXCEPT ![r].left = @ \ {i}]
       \/ call[r].left = {} /\ Goto(r, "listUsers") /\ UNCHANGED engine
    /\ UNCHANGED <<auth, accountHistory, store, notes, marks, unsaved>>

ListUsers(r) ==
    /\ call[r].at = "listUsers"
    /\ call' = [call EXCEPT ![r].at = "moveUsers", ![r].move =
                   {n \in Names : users[n].domain = req[r].domain}]
    /\ UNCHANGED world

(* One by one, in any order; whether a save fails is not looked at. *)
MoveUser(r) ==
    /\ call[r].at = "moveUsers"
    /\ \/ \E n \in call[r].move, ok \in BOOLEAN :
            /\ SetDomain(n, DefaultDomain, ok)
            /\ call' = [call EXCEPT ![r].move = @ \ {n}]
       \/ call[r].move = {} /\ Answer(r) /\ UNCHANGED auth
    /\ Governed
    /\ UNCHANGED <<acked, firsts, objects, unsaved>>
-----------------------------------------------------------------------------
(* Captures and sessions. *)

AddPcap(r) ==
    /\ call[r].at = "pcapsPost"
    /\ \/ /\ nextPcap \in Ids
          /\ pcaps' = pcaps \cup {Object(nextPcap, call[r].domain, r)}
          /\ nextPcap' = nextPcap + 1
       \/ UNCHANGED <<pcaps, nextPcap>>
    /\ Answer(r)
    /\ UNCHANGED <<auth, accountHistory, domains, sessions, nextSession, engine,
                   notes, marks, unsaved>>

CheckPcap(r) ==
    /\ call[r].at = "pcapDelete"
    /\ IF InDomain(pcaps, req[r].id, r) THEN Goto(r, "mayDelete") ELSE Answer(r)
    /\ UNCHANGED world

MayDelete(r) ==
    /\ call[r].at = "mayDelete"
    /\ IF Admin(r) \/ Owns(r) THEN Goto(r, "removePcap") ELSE Answer(r)
    /\ UNCHANGED world

RemovePcap(r) ==
    /\ call[r].at = "removePcap"
    /\ pcaps' = {p \in pcaps : p.id # req[r].id}
    /\ Touch(r, pcaps \ pcaps')
    /\ Answer(r)
    /\ UNCHANGED <<auth, accountHistory, domains, sessions, nextPcap,
                   nextSession, engine, notes, overwrote, unsaved>>

(* POST /api/sessions: the captures of the library, one by one; or a file  *)
(* of the server, which takes an administrator and may be missing.         *)
CheckSources(r) ==
    /\ call[r].at = "sessionsPost"
    /\ \/ \E i \in call[r].left :
            IF InDomain(pcaps, i, r)
            THEN call' = [call EXCEPT ![r].left = @ \ {i}]
            ELSE Answer(r)
       \/ /\ call[r].left = {}
          /\ req[r].ids # {} \/ Admin(r)
          /\ Goto(r, "addSession")
       \/ req[r].ids = {} /\ Answer(r)
    /\ UNCHANGED world

(* A capture that was removed since cannot be copied or merged. *)
AddSession(r) ==
    LET sources == {p \in pcaps : p.id \in req[r].ids} IN
    /\ call[r].at = "addSession"
    /\ \/ /\ {p.id : p \in sources} = req[r].ids
          /\ nextSession \in Ids
          /\ sessions' = sessions \cup {Object(nextSession, call[r].domain, r)}
          /\ notes' = [notes EXCEPT ![nextSession] = Seed]
          /\ nextSession' = nextSession + 1
          /\ call' = [call EXCEPT ![r].at = "start", ![r].made = nextSession]
          /\ Touch(r, sources)
       \/ Answer(r) /\ UNCHANGED <<sessions, notes, nextSession, crossed>>
    /\ UNCHANGED <<auth, accountHistory, domains, pcaps, nextPcap, engine,
                   overwrote, unsaved>>

Start(r) ==
    /\ call[r].at = "start"
    /\ engine' = engine \cup {Object(call[r].made, call[r].domain, r)}
    /\ Answer(r)
    /\ UNCHANGED <<auth, accountHistory, store, notes, marks, unsaved>>

(* findScoped. *)
Find(r) ==
    /\ call[r].at = "find"
    /\ IF ~InDomain(engine, req[r].id, r) THEN Answer(r)
       ELSE Goto(r, CASE req[r].op = "sessionDelete" -> "engineRemove"
                      [] req[r].force -> "writeNotes"
                      [] OTHER -> "readNotes")
    /\ UNCHANGED world

EngineRemove(r) ==
    /\ call[r].at = "engineRemove"
    /\ IF \E s \in engine : s.id = req[r].id THEN Goto(r, "storeRemove")
       ELSE Answer(r)
    /\ engine' = {s \in engine : s.id # req[r].id}
    /\ Touch(r, engine \ engine')
    /\ UNCHANGED <<auth, accountHistory, store, notes, overwrote, unsaved>>

(* Mutant: only the folder is removed. *)
StoreRemoveFolder(r) ==
    /\ call[r].at = "storeRemove"
    /\ notes' = [notes EXCEPT ![req[r].id] = Gone]
    /\ Answer(r)
    /\ UNCHANGED <<auth, accountHistory, store, engine, marks, unsaved>>

StoreRemove(r) ==
    /\ call[r].at = "storeRemove"
    /\ sessions' = {s \in sessions : s.id # req[r].id}
    /\ notes' = [notes EXCEPT ![req[r].id] = Gone]
    /\ Touch(r, sessions \ sessions')
    /\ Answer(r)
    /\ UNCHANGED <<auth, accountHistory, domains, pcaps, nextPcap, nextSession,
                   engine, overwrote, unsaved>>
-----------------------------------------------------------------------------
(* Notes.  The revision of a text stands for the text. *)

ReadNotes(r) ==
    /\ call[r].at = "readNotes"
    /\ IF notes[req[r].id] = call[r].base THEN Goto(r, "writeNotes") ELSE Answer(r)
    /\ UNCHANGED world

(* A PUT without a revision (force) means to overwrite. *)
WriteNotes(r) ==
    LET current == notes[req[r].id] IN
    /\ call[r].at = "writeNotes"
    /\ \/ /\ current # Gone
          /\ notes' = [notes EXCEPT ![req[r].id] = r]
          /\ overwrote' = IF req[r].force \/ current = call[r].base THEN overwrote
                          ELSE overwrote \cup {<<current, r>>}
          /\ Touch(r, {s \in sessions : s.id = req[r].id})
       \/ UNCHANGED <<notes, marks>>
    /\ Answer(r)
    /\ UNCHANGED <<auth, accountHistory, store, engine, unsaved>>
-----------------------------------------------------------------------------
Handle(r) ==
    \/ Check(r) \/ Info(r)
    \/ AskBootstrap(r) \/ CreateUser(r) \/ LogIn(r) \/ LogOut(r)
    \/ UserDomain(r) \/ Delete(r) \/ OwnerOnly(r) \/ Victim(r) \/ SpareOwner(r)
    \/ AskOwner(r) \/ AddDomain(r) \/ NameOwner(r) \/ RollBack(r)
    \/ RemoveDomain(r) \/ Evict(r) \/ ListUsers(r) \/ MoveUser(r)
    \/ AddPcap(r) \/ CheckPcap(r) \/ MayDelete(r) \/ RemovePcap(r)
    \/ CheckSources(r) \/ AddSession(r) \/ Start(r) \/ Find(r) \/ EngineRemove(r) \/ StoreRemove(r)
    \/ ReadNotes(r) \/ WriteNotes(r)

Removes(q, d) ==
    req[q].op \in {"domainsDelete", "domainsPost"} /\ req[q].domain = d

(* History: a domain whose removal is cut off, or one that an account is   *)
(* back in because its last change was not saved.                          *)
Tear ==
    torn' = torn \cup {d \in Domains : \/ \E q \in Requests : InProgress(q) /\ Removes(q, d)
                                     \/ \E n \in Names : /\ users[n] # usersFile[n]
                                                          /\ usersFile[n].domain = d}

(* The process dies; the sessions are analysed anew by the next one.  What *)
(* a failed save leaves on disk is Store.tla's matter.                     *)
Crash ==
    /\ up
    /\ restarts < deployment.restarts
    /\ unsaved = {}
    /\ up' = FALSE
    /\ restarts' = restarts + 1
    /\ call' = [r \in Requests |-> IF InProgress(r) THEN [Idle EXCEPT !.at = "done"]
                                   ELSE call[r]]
    /\ Load
    /\ Tear
    /\ engine' = sessions
    /\ firsts' = {f \in firsts : usersFile[f[1]].role = "admin"}
    /\ UNCHANGED <<deployment, req, met, store, notes, marks, acked,
                   governed, unsaved>>

(* main(): the administrator the environment names, if it names one. *)
Boot ==
    /\ ~up
    /\ up' = TRUE
    /\ IF deployment.admin \in Names
       THEN \E ok \in BOOLEAN : EnsureAdmin(deployment.admin, ok)
       ELSE UNCHANGED auth
    /\ firsts' = IF ~HasAdmin /\ Admins(users') # {}
                 THEN {<<deployment.admin, Seed>>} ELSE firsts
    /\ Governed
    /\ UNCHANGED <<deployment, req, call, restarts, met, torn, acked, objects,
                   unsaved>>

ApiInit ==
    /\ deployment \in Deployments
    /\ up = deployment.up
    /\ req = [r \in Requests |-> CHOOSE ask \in deployment.offers : TRUE]
    /\ call = [r \in Requests |-> Idle]
    /\ users = deployment.users /\ usersFile = deployment.users
    /\ tokens = deployment.tokens
    /\ domains = deployment.domains
    /\ pcaps = deployment.pcaps
    /\ sessions = deployment.sessions /\ engine = deployment.sessions
    /\ notes = [i \in Ids |-> IF \E s \in sessions : s.id = i THEN Seed ELSE Gone]
    /\ nextPcap = 1 + Cardinality(pcaps)
    /\ nextSession = 1 + Cardinality(sessions)
    /\ restarts = 0
    /\ acked = {n \in Names : users[n] # Absent}
    /\ met = {} /\ firsts = {} /\ unsaved = {} /\ overwrote = {} /\ crossed = {}
    /\ torn = {}
    /\ governed = (Admins(usersFile) # {})

ApiNext ==
    \/ /\ \E r \in Requests : Begin(r)
       /\ UNCHANGED <<deployment, up, restarts, torn>>
    \/ /\ \E r \in Requests : Handle(r)
       /\ UNCHANGED <<deployment, up, req, restarts, met, torn>>
    \/ Crash
    \/ Boot
-----------------------------------------------------------------------------
ApiTypeOK ==
    /\ AuthTypeOK
    /\ deployment \in Deployments
    /\ up \in BOOLEAN
    /\ req \in [Requests -> deployment.offers]
    /\ call \in [Requests -> Calls]
    /\ domains \subseteq TenantDomains
    /\ \A x \in domains : Owner(x.id) = {x.owner}
    /\ pcaps \subseteq Objects /\ sessions \subseteq Objects
    /\ engine \subseteq Objects
    /\ notes \in [Ids -> Requests \cup {Seed, Gone}]
    /\ nextPcap \in 1 .. MaxIds + 1 /\ nextSession \in 1 .. MaxIds + 1
    /\ acked \subseteq Names /\ unsaved \subseteq Requests /\ torn \subseteq Domains
    /\ firsts \subseteq Names \X (Requests \cup {Seed})
    /\ overwrote \subseteq (Requests \cup {Seed}) \X Requests
    /\ crossed \subseteq Requests

(* A token speaks for an account that exists. *)
TokensHaveAccounts == \A t \in Tokens : tokens[t] \in Names => users[tokens[t]] # Absent

(* An account whose creation was acknowledged is in memory and on disk,    *)
(* whatever saves fail, until it is deleted; and after the process died    *)
(* where Crash lets it, with nothing unsaved that a later save may mend.   *)
AccountsKept == \A n \in acked : users[n] # Absent /\ usersFile[n] # Absent

(* A deployment that ever had an administrator on disk keeps one. *)
StaysGoverned == governed => HasAdmin /\ Admins(usersFile) # {}

(* Two accounts become the first administrator only when their requests    *)
(* were in progress at the same time; a provisioned one leaves no room.    *)
OneFirstAdmin == \A f, g \in firsts : f # g => {f[2], g[2]} \in met

(* What the accounts promise (auth.cpp, api.cpp: handleRegister). *)
AccountsSound ==
    TokensHaveAccounts /\ AccountsKept /\ StaysGoverned /\ OneFirstAdmin

(* Requests that remove accounts or move them to another domain. *)
Movers == {"adminUsersDelete", "domainUsersDelete", "domainsPost", "domainsDelete"}

(* One of them overlapped request r. *)
Shifted(r) == \E q \in Requests : {q, r} \in met /\ req[q].op \in Movers

(* A request acts in the domain its account was in when the token was      *)
(* looked up, unless one that removes or moves accounts overlapped it.     *)
ActsAtHome ==
    \A r \in Requests :
        InProgress(r) /\ call[r].domain \notin {"", call[r].home} => Shifted(r)

(* A request removes, copies and writes what is of the domain it acts in:  *)
(* only the deletion of a domain's user may hit one who has left it since  *)
(* the check, and then a request that moves or deletes users overlapped.   *)
Isolated == \A r \in crossed : req[r].op = "domainUsersDelete" /\ Shifted(r)

(* The removal of domain d overlapped another request, was not saved or    *)
(* was cut off.                                                            *)
Raced(d) ==
    \/ d \in torn
    \/ \E q \in Requests :
          Removes(q, d) /\ (q \in unsaved \/ \E r \in Requests : {q, r} \in met)

(* A session of the store is known to the engine; the engine keeps one     *)
(* that the store has dropped only if its creation met the removal of its  *)
(* domain or that removal could not be saved.                              *)
SessionsMatch ==
    /\ sessions \subseteq engine
    /\ \A s \in engine \ sessions : \E q \in Requests :
         Removes(q, s.domain) /\ (q \in unsaved \/ {q, s.by} \in met)

(* Captures, sessions and accounts are in domains that exist, unless the   *)
(* removal of the domain overlapped another request or was not saved.      *)
DomainsExist ==
    /\ \A o \in pcaps \cup sessions : Exists(domains, o.domain) \/ Raced(o.domain)
    /\ \A n \in Names : users[n] # Absent =>
         Exists(domains, users[n].domain) \/ Raced(users[n].domain)

(* Notes are written over unseen only by two writers at the same time. *)
NotesSeen == \A pair \in overwrote : {pair[1], pair[2]} \in met

(* What requests leave behind once none is in progress: those sent one     *)
(* after the other leave the accounts, the store and the engine in step    *)
(* (api.cpp: handleSessionsPost, handleSessionDelete, handleNotesPut,      *)
(* handleAdmin, handleDomainApi).                                          *)
RequestsSound ==
    /\ ActsAtHome /\ Isolated
    /\ AtRest => SessionsMatch /\ DomainsExist /\ NotesSeen
=============================================================================
