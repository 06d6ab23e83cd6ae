--------------------------- MODULE RequestsProofs ---------------------------
(***************************************************************************)
(* Proofs about the requests of Api.tla, for any deployments, names and    *)
(* numbers of requests: the types of what the handlers share, and what     *)
(* requests leave behind (RequestsSound).  A handler carries what it read  *)
(* from call to call; the invariant says what that still tells of the      *)
(* accounts, the store and the engine after other requests have changed    *)
(* them.                                                                   *)
(***************************************************************************)
EXTENDS ServingProofs, FiniteSetTheorems

(***************************************************************************)
(* The steps of one request.                                               *)
(***************************************************************************)
Turn(r) == Handle(r) /\ UNCHANGED <<deployment, up, req, restarts, met, torn>>

(* Request r goes on as before at another place. *)
Continues(r, at) ==
    LET c == call[r]
        d == call'[r]
    IN  /\ d.at = at
        /\ d.user = c.user /\ d.role = c.role /\ d.domain = c.domain
        /\ d.home = c.home /\ d.base = c.base

LEMMA AnswerGives ==
    ASSUME CallsPart, NEW r \in Requests, Answer(r)
    PROVE  call'[r].at = "done" /\ call'[r].domain = ""
BY DEF CallsPart, Answer, Idle

LEMMA GotoGives ==
    ASSUME CallsPart, NEW r \in Requests, NEW at \in Stages, Goto(r, at)
    PROVE  /\ Continues(r, at)
           /\ call'[r].left = call[r].left /\ call'[r].made = call[r].made
<1>1. call[r] \in Calls
  BY DEF CallsPart
<1>2. call'[r] = [call[r] EXCEPT !.at = at]
  BY DEF CallsPart, Goto
<1>. QED  BY <1>1, <1>2 DEF Continues, Calls

LEMMA OthersStay ==
    ASSUME CallsPart, NEW r \in Requests, Moves(r)
    PROVE  InProgress(r) /\ \A q \in Requests : q # r => call'[q] = call[q]
BY DEF CallsPart, Moves

(* Which step leads where. *)
Arrives(r) ==
    LET to == call'[r].at IN
    /\ to \notin {"new", "check"}
    /\ Answer(r) \/ Check(r) \/ Info(r) \/ (Continues(r, to) /\ to # "info")
    /\ to = "info" => Check(r)
    /\ to \in Ops \cup {"owner", "find"} =>
         \/ Info(r) /\ to = Handler(req[r].op)
         \/ CheckSources(r) /\ to = "sessionsPost" /\ Continues(r, to)
    /\ to = "create" =>
         (AskBootstrap(r) \/ UserDomain(r) \/ OwnerOnly(r)) /\ Continues(r, to)
    /\ to = "victim" => OwnerOnly(r) /\ Continues(r, to)
    /\ to = "spare" => Victim(r) /\ Continues(r, to)
    /\ to = "delete" => SpareOwner(r) /\ Continues(r, to)
    /\ to = "addDomain" => AskOwner(r) /\ Continues(r, to)
    /\ to = "nameOwner" => AddDomain(r) /\ Continues(r, to)
    /\ to = "rollBack" => NameOwner(r) /\ Continues(r, to)
    /\ to = "evict" => (RemoveDomain(r) \/ Evict(r)) /\ Continues(r, to)
    /\ to = "listUsers" => Evict(r) /\ Continues(r, to)
    /\ to = "moveUsers" => (ListUsers(r) \/ MoveUser(r)) /\ Continues(r, to)
    /\ to = "mayDelete" => CheckPcap(r) /\ Continues(r, to)
    /\ to = "removePcap" => MayDelete(r) /\ Continues(r, to)
    /\ to = "addSession" => CheckSources(r) /\ Continues(r, to)
    /\ to = "start" => AddSession(r) /\ Continues(r, to)
    /\ to = "engineRemove" => Find(r) /\ Continues(r, to)
    /\ to = "storeRemove" => EngineRemove(r) /\ Continues(r, to)
    /\ to = "readNotes" => Find(r) /\ Continues(r, to)
    /\ to = "writeNotes" => (Find(r) \/ ReadNotes(r)) /\ Continues(r, to)

LEMMA DoneArrives ==
    ASSUME CallsPart, NEW r \in Requests, Answer(r)
    PROVE  Arrives(r)
<1>1. call'[r].at = "done"
  BY AnswerGives
<1>. QED  BY <1>1 DEF Arrives, Ops, AdminOps

LEMMA OpsPlaces ==
    \A op \in Ops : Handler(op) \in Ops \cup {"owner", "find"}
BY DEF Handler, Ops, AdminOps

LEMMA StagesApart ==
    Ops \cap {"new", "check", "info", "create", "owner", "victim", "spare", "delete",
     "addDomain", "nameOwner", "rollBack", "evict", "listUsers", "moveUsers",
     "mayDelete", "removePcap", "addSession", "start", "find", "engineRemove",
     "storeRemove", "readNotes", "writeNotes", "done"} = {}
BY DEF Ops, AdminOps

LEMMA Arriving ==
    ASSUME CallsPart, NEW r \in Requests, Handle(r)
    PROVE  Arrives(r)
<1>1. call[r] \in Calls /\ req[r] \in Asks
  BY DEF CallsPart
<1>2. ASSUME Answer(r) PROVE Arrives(r)
  BY <1>2, DoneArrives
<1>3. ASSUME NEW at \in {"create", "victim", "spare", "delete", "nameOwner", "rollBack",
                         "listUsers", "mayDelete", "removePcap", "addSession",
                         "engineRemove", "storeRemove", "readNotes", "writeNotes"},
             Goto(r, at)
      PROVE  Continues(r, at)
  BY <1>3, GotoGives DEF Stages
<1>4. CASE Check(r)
  <2>1. CASE ~Answer(r)
    <3> DEFINE user == tokens[req[r].token]
    <3>1. call'[r] = [call[r] EXCEPT !.at = "info", !.user = user, !.home = users[user].domain]
      BY <1>4, <2>1 DEF Check, CallsPart
    <3>2. call'[r].at = "info"
      BY <1>1, <3>1 DEF Calls
    <3>. QED  BY <1>4, <3>2, StagesApart DEF Arrives
  <2>. QED  BY <1>2, <2>1
<1>5. CASE Info(r)
  <2>1. CASE ~Answer(r)
    <3>1. call' = [call EXCEPT ![r] = Caller(r)]
      BY <1>5, <2>1 DEF Info
    <3>2. Caller(r).at = Handler(req[r].op)
      BY <1>1 DEF Caller, Calls
    <3>3. call'[r].at = Handler(req[r].op)
      BY <3>1, <3>2 DEF CallsPart
    <3>4. Handler(req[r].op) \in Ops \cup {"owner", "find"}
      BY <1>1, OpsPlaces DEF Asks
    <3>. QED  BY <1>5, <3>3, <3>4, StagesApart DEF Arrives
  <2>. QED  BY <1>2, <2>1
<1>6. CASE AskBootstrap(r)
  <2>1. CASE ~Answer(r)
    <3>1. call'[r] = [call[r] EXCEPT !.at = "create", !.flag = ~HasAdmin]
      BY <1>6, <2>1 DEF AskBootstrap, CallsPart
    <3>2. Continues(r, "create")
      BY <1>1, <3>1 DEF Continues, Calls
    <3>3. call'[r].at = "create"
      BY <3>2 DEF Continues
    <3>. QED  BY <1>6, <3>2, <3>3, StagesApart DEF Arrives
  <2>. QED  BY <1>2, <2>1
<1>7. CASE UserDomain(r) \/ OwnerOnly(r) \/ Victim(r) \/ SpareOwner(r)
  <2>1. CASE UserDomain(r) /\ Goto(r, "create")
    <3>1. Continues(r, "create") /\ call'[r].at = "create"
      BY <1>3, <2>1 DEF Continues
    <3>. QED  BY <2>1, <3>1, StagesApart DEF Arrives
  <2>2. CASE OwnerOnly(r) /\ Goto(r, "create")
    <3>1. Continues(r, "create") /\ call'[r].at = "create"
      BY <1>3, <2>2 DEF Continues
    <3>. QED  BY <2>2, <3>1, StagesApart DEF Arrives
  <2>3. CASE OwnerOnly(r) /\ Goto(r, "victim")
    <3>1. Continues(r, "victim") /\ call'[r].at = "victim"
      BY <1>3, <2>3 DEF Continues
    <3>. QED  BY <2>3, <3>1, StagesApart DEF Arrives
  <2>4. CASE Victim(r) /\ Goto(r, "spare")
    <3>1. Continues(r, "spare") /\ call'[r].at = "spare"
      BY <1>3, <2>4 DEF Continues
    <3>. QED  BY <2>4, <3>1, StagesApart DEF Arrives
  <2>5. CASE SpareOwner(r) /\ Goto(r, "delete")
    <3>1. Continues(r, "delete") /\ call'[r].at = "delete"
      BY <1>3, <2>5 DEF Continues
    <3>. QED  BY <2>5, <3>1, StagesApart DEF Arrives
  <2>. QED  BY <1>2, <1>7, <2>1, <2>2, <2>3, <2>4, <2>5 DEF UserDomain, OwnerOnly, Victim, SpareOwner
<1>8. CASE CreateUser(r) \/ LogIn(r) \/ LogOut(r) \/ Delete(r) \/ RollBack(r) \/ AddPcap(r)
           \/ RemovePcap(r) \/ Start(r) \/ StoreRemove(r) \/ WriteNotes(r)
  BY <1>2, <1>8 DEF CreateUser, LogIn, LogOut, Delete, RollBack, AddPcap, RemovePcap, Start,
                    StoreRemove, WriteNotes
<1>9. CASE AskOwner(r)
  <2>1. CASE ~Answer(r)
    <3>1. call'[r] = [call[r] EXCEPT !.at = "addDomain", !.flag = users[req[r].name] # Absent]
      BY <1>9, <2>1 DEF AskOwner, CallsPart
    <3>2. Continues(r, "addDomain")
      BY <1>1, <3>1 DEF Continues, Calls
    <3>3. call'[r].at = "addDomain"
      BY <3>2 DEF Continues
    <3>. QED  BY <1>9, <3>2, <3>3, StagesApart DEF Arrives
  <2>. QED  BY <1>2, <2>1
<1>10. CASE AddDomain(r)
  <2>1. CASE Goto(r, "nameOwner")
    <3>1. Continues(r, "nameOwner") /\ call'[r].at = "nameOwner"
      BY <1>3, <2>1 DEF Continues
    <3>. QED  BY <1>10, <3>1, StagesApart DEF Arrives
  <2>. QED  BY <1>2, <1>10, <2>1 DEF AddDomain
<1>11. CASE NameOwner(r)
  <2>1. CASE Goto(r, "rollBack")
    <3>1. Continues(r, "rollBack") /\ call'[r].at = "rollBack"
      BY <1>3, <2>1 DEF Continues
    <3>. QED  BY <1>11, <3>1, StagesApart DEF Arrives
  <2>2. Answer(r) \/ Goto(r, "rollBack")
    BY <1>11 DEF NameOwner
  <2>. QED  BY <1>2, <2>1, <2>2
<1>12. CASE RemoveDomain(r)
  <2>1. CASE ~Answer(r)
    <3> DEFINE ids == {s.id : s \in sessions \ Elsewhere(sessions, req[r].domain)}
    <3>1. call'[r] = [call[r] EXCEPT !.at = "evict", !.left = ids]
      BY <1>12, <2>1 DEF RemoveDomain, CallsPart
    <3> HIDE DEF ids
    <3>2. Continues(r, "evict")
      BY <1>1, <3>1 DEF Continues, Calls
    <3>3. call'[r].at = "evict"
      BY <3>2 DEF Continues
    <3>. QED  BY <1>12, <3>2, <3>3, StagesApart DEF Arrives
  <2>. QED  BY <1>2, <2>1
<1>13. CASE Evict(r)
  <2>1. CASE Goto(r, "listUsers")
    <3>1. Continues(r, "listUsers") /\ call'[r].at = "listUsers"
      BY <1>3, <2>1 DEF Continues
    <3>. QED  BY <1>13, <3>1, StagesApart DEF Arrives
  <2>2. CASE ~Goto(r, "listUsers")
    <3>1. PICK i \in call[r].left : call' = [call EXCEPT ![r].left = @ \ {i}]
      BY <1>13, <2>2 DEF Evict
    <3>2. call'[r] = [call[r] EXCEPT !.left = @ \ {i}] /\ call[r].at = "evict"
      BY <1>13, <3>1 DEF CallsPart, Evict
    <3>3. Continues(r, "evict")
      BY <1>1, <3>2 DEF Continues, Calls
    <3>4. call'[r].at = "evict"
      BY <3>3 DEF Continues
    <3>. QED  BY <1>13, <3>3, <3>4, StagesApart DEF Arrives
  <2>. QED  BY <2>1, <2>2
<1>14. CASE ListUsers(r)
  <2> DEFINE ns == {n \in Names : users[n].domain = req[r].domain}
  <2>1. call'[r] = [call[r] EXCEPT !.at = "moveUsers", !.move = ns]
    BY <1>14 DEF ListUsers, CallsPart
  <2> HIDE DEF ns
  <2>2. Continues(r, "moveUsers")
    BY <1>1, <2>1 DEF Continues, Calls
  <2>3. call'[r].at = "moveUsers"
    BY <2>2 DEF Continues
  <2>. QED  BY <1>14, <2>2, <2>3, StagesApart DEF Arrives
<1>15. CASE MoveUser(r)
  <2>1. CASE ~Answer(r)
    <3>1. PICK n \in call[r].move : call' = [call EXCEPT ![r].move = @ \ {n}]
      BY <1>15, <2>1 DEF MoveUser
    <3>2. call'[r] = [call[r] EXCEPT !.move = @ \ {n}] /\ call[r].at = "moveUsers"
      BY <1>15, <3>1 DEF CallsPart, MoveUser
    <3>3. Continues(r, "moveUsers")
      BY <1>1, <3>2 DEF Continues, Calls
    <3>4. call'[r].at = "moveUsers"
      BY <3>3 DEF Continues
    <3>. QED  BY <1>15, <3>3, <3>4, StagesApart DEF Arrives
  <2>. QED  BY <1>2, <2>1
<1>16. CASE CheckPcap(r) \/ MayDelete(r) \/ EngineRemove(r) \/ ReadNotes(r)
  <2>1. CASE CheckPcap(r) /\ Goto(r, "mayDelete")
    <3>1. Continues(r, "mayDelete") /\ call'[r].at = "mayDelete"
      BY <1>3, <2>1 DEF Continues
    <3>. QED  BY <2>1, <3>1, StagesApart DEF Arrives
  <2>2. CASE MayDelete(r) /\ Goto(r, "removePcap")
    <3>1. Continues(r, "removePcap") /\ call'[r].at = "removePcap"
      BY <1>3, <2>2 DEF Continues
    <3>. QED  BY <2>2, <3>1, StagesApart DEF Arrives
  <2>3. CASE EngineRemove(r) /\ Goto(r, "storeRemove")
    <3>1. Continues(r, "storeRemove") /\ call'[r].at = "storeRemove"
      BY <1>3, <2>3 DEF Continues
    <3>. QED  BY <2>3, <3>1, StagesApart DEF Arrives
  <2>4. CASE ReadNotes(r) /\ Goto(r, "writeNotes")
    <3>1. Continues(r, "writeNotes") /\ call'[r].at = "writeNotes"
      BY <1>3, <2>4 DEF Continues
    <3>. QED  BY <2>4, <3>1, StagesApart DEF Arrives
  <2>. QED  BY <1>2, <1>16, <2>1, <2>2, <2>3, <2>4 DEF CheckPcap, MayDelete, EngineRemove, ReadNotes
<1>17. CASE CheckSources(r)
  <2>1. CASE Goto(r, "addSession")
    <3>1. Continues(r, "addSession") /\ call'[r].at = "addSession"
      BY <1>3, <2>1 DEF Continues
    <3>. QED  BY <1>17, <3>1, StagesApart DEF Arrives
  <2>2. CASE ~Goto(r, "addSession") /\ ~Answer(r)
    <3>1. PICK i \in call[r].left : call' = [call EXCEPT ![r].left = @ \ {i}]
      BY <1>17, <2>2 DEF CheckSources
    <3>2. call'[r] = [call[r] EXCEPT !.left = @ \ {i}] /\ call[r].at = "sessionsPost"
      BY <1>17, <3>1 DEF CallsPart, CheckSources
    <3>3. Continues(r, "sessionsPost")
      BY <1>1, <3>2 DEF Continues, Calls
    <3>4. call'[r].at = "sessionsPost" /\ "sessionsPost" \in Ops
      BY <3>3 DEF Continues, Ops
    <3>. QED  BY <1>17, <3>3, <3>4, StagesApart DEF Arrives
  <2>. QED  BY <1>2, <2>1, <2>2
<1>18. CASE AddSession(r)
  <2>1. CASE ~Answer(r)
    <3>1. call'[r] = [call[r] EXCEPT !.at = "start", !.made = nextSession]
      BY <1>18, <2>1 DEF AddSession, CallsPart
    <3>2. Continues(r, "start")
      BY <1>1, <3>1 DEF Continues, Calls
    <3>3. call'[r].at = "start"
      BY <3>2 DEF Continues
    <3>. QED  BY <1>18, <3>2, <3>3, StagesApart DEF Arrives
  <2>. QED  BY <1>2, <2>1
<1>19. CASE Find(r)
  <2>1. ASSUME NEW at \in {"engineRemove", "readNotes", "writeNotes"}, Goto(r, at)
        PROVE  Arrives(r)
    <3>1. Continues(r, at) /\ call'[r].at = at
      BY <1>3, <2>1 DEF Continues
    <3>. QED  BY <1>19, <3>1, StagesApart DEF Arrives
  <2>2. Answer(r) \/ \E at \in {"engineRemove", "readNotes", "writeNotes"} : Goto(r, at)
    BY <1>19 DEF Find
  <2>. QED  BY <1>2, <2>1, <2>2
<1>. QED
  BY <1>4, <1>5, <1>6, <1>7, <1>8, <1>9, <1>10, <1>11, <1>12, <1>13, <1>14, <1>15, <1>16,
     <1>17, <1>18, <1>19 DEF Handle
(* Which steps change what. *)
Frames(r) ==
    /\ UNCHANGED <<users, usersFile>> \/ CreateUser(r) \/ Delete(r) \/ NameOwner(r) \/ MoveUser(r)
    /\ UNCHANGED domains \/ AddDomain(r) \/ RollBack(r) \/ RemoveDomain(r)
    /\ \/ UNCHANGED <<pcaps, nextPcap>>
       \/ AddPcap(r) \/ RemovePcap(r) \/ RollBack(r) \/ RemoveDomain(r)
    /\ \/ UNCHANGED <<sessions, nextSession>>
       \/ AddSession(r) \/ StoreRemove(r) \/ RollBack(r) \/ RemoveDomain(r)
    /\ UNCHANGED engine \/ Evict(r) \/ Start(r) \/ EngineRemove(r)
    /\ \/ UNCHANGED notes
       \/ AddSession(r) \/ StoreRemove(r) \/ WriteNotes(r) \/ RollBack(r) \/ RemoveDomain(r)
    /\ UNCHANGED overwrote \/ WriteNotes(r)
    /\ \/ UNCHANGED crossed
       \/ Delete(r) \/ RemovePcap(r) \/ AddSession(r) \/ EngineRemove(r) \/ StoreRemove(r)
       \/ WriteNotes(r)
    /\ UNCHANGED unsaved \/ NameOwner(r) \/ RemoveDomain(r)

LEMMA Framing ==
    ASSUME NEW r \in Requests, Handle(r)
    PROVE  Frames(r)
<1>1. ASSUME UNCHANGED world PROVE Frames(r)
  BY <1>1 DEF Frames, world, auth, objects, store, marks
<1>2. ASSUME UNCHANGED <<objects, unsaved>>,
             CreateUser(r) \/ NameOwner(r) \/ MoveUser(r) \/ UNCHANGED <<users, usersFile>>
      PROVE  Frames(r)
  BY <1>2 DEF Frames, objects, store, marks
<1>3. CASE Check(r) \/ Info(r) \/ AskBootstrap(r) \/ UserDomain(r) \/ OwnerOnly(r)
           \/ Victim(r) \/ SpareOwner(r) \/ AskOwner(r) \/ ListUsers(r)
  BY <1>1, <1>3 DEF Check, Info, AskBootstrap, UserDomain, OwnerOnly, Victim, SpareOwner,
                    AskOwner, ListUsers
<1>4. CASE CheckPcap(r) \/ MayDelete(r) \/ CheckSources(r) \/ Find(r) \/ ReadNotes(r)
  BY <1>1, <1>4 DEF CheckPcap, MayDelete, CheckSources, Find, ReadNotes
<1>5. CASE CreateUser(r) \/ MoveUser(r)
  BY <1>2, <1>5 DEF CreateUser, MoveUser
<1>6. CASE LogIn(r) \/ LogOut(r)
  <2>1. UNCHANGED <<objects, unsaved>>
    BY <1>6 DEF LogIn, LogOut
  <2>2. UNCHANGED <<users, usersFile>>
    BY <1>6 DEF LogIn, LogOut, Login, Logout, auth
  <2>. QED  BY <1>2, <2>1, <2>2
<1>7. CASE NameOwner(r)
  BY <1>7 DEF NameOwner, Frames, objects, store, marks
<1>8. CASE Delete(r)
  BY <1>8 DEF Delete, Frames, store
<1>9. CASE AddDomain(r) \/ AddPcap(r) \/ RemovePcap(r)
  BY <1>9 DEF AddDomain, AddPcap, RemovePcap, Frames, auth, marks
<1>10. CASE RollBack(r) \/ RemoveDomain(r)
  BY <1>10 DEF RollBack, RemoveDomain, Frames, auth, marks
<1>11. CASE Evict(r) \/ Start(r)
  BY <1>11 DEF Evict, Start, Frames, auth, store, marks
<1>12. CASE AddSession(r) \/ EngineRemove(r) \/ StoreRemove(r)
  BY <1>12 DEF AddSession, EngineRemove, StoreRemove, Frames, auth, store
<1>13. CASE WriteNotes(r)
  BY <1>13 DEF WriteNotes, Frames, auth, store
<1>. QED
  BY <1>3, <1>4, <1>5, <1>6, <1>7, <1>8, <1>9, <1>10, <1>11, <1>12, <1>13 DEF Handle
(***************************************************************************)
(* Where a request can be, given what it asks.                             *)
(***************************************************************************)
StageFits(c, ask) ==
    /\ c.at \in Ops => ask.op = c.at
    /\ c.at = "create" => ask.op \in {"register", "adminUsersPost", "domainUsersPost"}
    /\ c.at \in {"victim", "spare", "delete"} => ask.op = "domainUsersDelete"
    /\ c.at = "owner" => ask.op \in {"domainUsersPost", "domainUsersDelete"}
    /\ c.at \in {"addDomain", "nameOwner", "rollBack"} => ask.op = "domainsPost"
    /\ c.at \in {"evict", "listUsers", "moveUsers"} => ask.op = "domainsDelete"
    /\ c.at \in {"addSession", "start"} => ask.op = "sessionsPost"
    /\ c.at \in {"new", "check", "info"} => c.domain = ""

StagesPart == \A r \in Requests : StageFits(call[r], req[r])

(* What has not begun has left no trace. *)
StartedPart ==
    \A r \in Requests : call[r].at = "new" =>
        r \notin crossed /\ r \notin unsaved /\ \A pair \in met : r \notin pair

RouteInv == StagesPart /\ StartedPart

LEMMA HandlerFits ==
    ASSUME NEW op \in Ops
    PROVE  /\ Handler(op) \in Ops => op = Handler(op)
           /\ Handler(op) = "owner" => op \in {"domainUsersPost", "domainUsersDelete"}
BY DEF Handler, Ops, AdminOps

LEMMA StageAfter ==
    ASSUME CallsPart, StagesPart, NEW r \in Requests, Handle(r)
    PROVE  StageFits(call'[r], req[r])
<1>1. Arrives(r)
  BY Arriving
<1>2. StageFits(call[r], req[r])
  BY DEF StagesPart
<1>3. req[r].op \in Ops
  BY DEF CallsPart, Asks
<1> DEFINE to == call'[r].at
<1>4. to \in Ops => req[r].op = to
  <2>1. CASE Info(r) /\ to = Handler(req[r].op)
    BY <1>3, <2>1, HandlerFits
  <2>2. CASE CheckSources(r) /\ to = "sessionsPost"
    <3>1. call[r].at = "sessionsPost"
      BY <2>2 DEF CheckSources
    <3>2. "sessionsPost" \in Ops
      BY DEF Ops
    <3>. QED  BY <1>2, <2>2, <3>1, <3>2 DEF StageFits
  <2>. QED  BY <1>1, <2>1, <2>2 DEF Arrives
<1>5. to = "create" => req[r].op \in {"register", "adminUsersPost", "domainUsersPost"}
  <2>1. CASE AskBootstrap(r) \/ UserDomain(r)
    <3>1. call[r].at \in {"register", "adminUsersPost"}
      BY <2>1 DEF AskBootstrap, UserDomain
    <3>2. {"register", "adminUsersPost"} \subseteq Ops
      BY DEF Ops, AdminOps
    <3>. QED  BY <1>2, <3>1, <3>2 DEF StageFits
  <2>2. CASE OwnerOnly(r)
    <3>1. to \in {"done", "create", "victim"} /\ (to = "create" => req[r].op = "domainUsersPost")
      <4>1. CASE Answer(r)
        BY <4>1, AnswerGives
      <4>2. CASE ~Answer(r)
        BY <2>2, <4>2, GotoGives DEF OwnerOnly, Continues, Stages
      <4>. QED  BY <4>1, <4>2
    <3>. QED  BY <3>1
  <2>. QED  BY <1>1, <2>1, <2>2 DEF Arrives
<1>6. to \in {"victim", "spare", "delete"} => req[r].op = "domainUsersDelete"
  <2>1. CASE OwnerOnly(r) /\ to = "victim"
    <3>1. ~Answer(r)
      BY <2>1, AnswerGives
    <3>2. req[r].op # "domainUsersPost"
      BY <2>1, <3>1, GotoGives DEF OwnerOnly, Continues, Stages
    <3>3. call[r].at = "owner"
      BY <2>1 DEF OwnerOnly
    <3>. QED  BY <1>2, <3>2, <3>3 DEF StageFits
  <2>2. CASE Victim(r) \/ SpareOwner(r)
    BY <1>2, <2>2 DEF StageFits, Victim, SpareOwner
  <2>. QED  BY <1>1, <2>1, <2>2 DEF Arrives
<1>7. to = "owner" => req[r].op \in {"domainUsersPost", "domainUsersDelete"}
  BY <1>1, <1>3, HandlerFits DEF Arrives
<1>8. to \in {"addDomain", "nameOwner", "rollBack"} => req[r].op = "domainsPost"
  <2>1. CASE AskOwner(r)
    BY <1>2, <2>1 DEF StageFits, AskOwner, Ops, AdminOps
  <2>2. CASE AddDomain(r) \/ NameOwner(r)
    BY <1>2, <2>2 DEF StageFits, AddDomain, NameOwner
  <2>. QED  BY <1>1, <2>1, <2>2 DEF Arrives
<1>9. to \in {"evict", "listUsers", "moveUsers"} => req[r].op = "domainsDelete"
  <2>1. CASE RemoveDomain(r)
    BY <1>2, <2>1 DEF StageFits, RemoveDomain, Ops, AdminOps
  <2>2. CASE Evict(r) \/ ListUsers(r) \/ MoveUser(r)
    BY <1>2, <2>2 DEF StageFits, Evict, ListUsers, MoveUser
  <2>. QED  BY <1>1, <2>1, <2>2 DEF Arrives
<1>10. to \in {"addSession", "start"} => req[r].op = "sessionsPost"
  <2>1. CASE CheckSources(r)
    BY <1>2, <2>1 DEF StageFits, CheckSources, Ops
  <2>2. CASE AddSession(r)
    BY <1>2, <2>2 DEF StageFits, AddSession
  <2>. QED  BY <1>1, <2>1, <2>2 DEF Arrives
<1>11. to \in {"new", "check", "info"} => call'[r].domain = ""
  <2>1. to \notin {"new", "check"}
    BY <1>1 DEF Arrives
  <2>2. CASE Check(r) /\ to = "info"
    <3> DEFINE user == tokens[req[r].token]
    <3>1. ~Answer(r)
      BY <2>2, AnswerGives
    <3>2. call'[r] = [call[r] EXCEPT !.at = "info", !.user = user, !.home = users[user].domain]
      BY <2>2, <3>1 DEF Check, CallsPart
    <3>3. call[r] \in Calls
      BY DEF CallsPart
    <3> HIDE DEF user
    <3>4. call'[r].domain = call[r].domain
      BY <3>2, <3>3 DEF Calls
    <3>. QED  BY <1>2, <2>2, <3>4 DEF StageFits, Check
  <2>. QED  BY <1>1, <2>1, <2>2 DEF Arrives
<1>. QED  BY <1>4, <1>5, <1>6, <1>7, <1>8, <1>9, <1>10, <1>11 DEF StageFits
(* What is known of the past only grows, and no request changes its mind. *)
Grown ==
    /\ met \subseteq met' /\ unsaved \subseteq unsaved' /\ torn \subseteq torn'
    /\ \A q \in Requests : call[q].at # "new" => req'[q] = req[q]

LEMMA Traces ==
    ASSUME NEW r \in Requests, Handle(r)
    PROVE  /\ crossed \subseteq crossed' /\ crossed' \subseteq crossed \cup {r}
           /\ unsaved \subseteq unsaved' /\ unsaved' \subseteq unsaved \cup {r}
<1>1. Frames(r)
  BY Framing
<1>2. crossed \subseteq crossed' /\ crossed' \subseteq crossed \cup {r}
  <2>1. ASSUME NEW set, Touch(r, set)
        PROVE  crossed \subseteq crossed' /\ crossed' \subseteq crossed \cup {r}
    BY <2>1 DEF Touch
  <2>2. CASE Delete(r)
    BY <2>1, <2>2 DEF Delete
  <2>3. CASE RemovePcap(r)
    BY <2>1, <2>3 DEF RemovePcap
  <2>4. CASE AddSession(r)
    BY <2>1, <2>4 DEF AddSession
  <2>5. CASE EngineRemove(r) \/ StoreRemove(r)
    BY <2>1, <2>5 DEF EngineRemove, StoreRemove
  <2>6. CASE WriteNotes(r)
    BY <2>1, <2>6 DEF WriteNotes, marks
  <2>. QED  BY <1>1, <2>2, <2>3, <2>4, <2>5, <2>6 DEF Frames
<1>3. unsaved \subseteq unsaved' /\ unsaved' \subseteq unsaved \cup {r}
  <2>1. CASE NameOwner(r)
    BY <2>1 DEF NameOwner
  <2>2. CASE RemoveDomain(r)
    BY <2>2 DEF RemoveDomain
  <2>. QED  BY <1>1, <2>1, <2>2 DEF Frames
<1>. QED  BY <1>2, <1>3

LEMMA TurnGrows ==
    ASSUME NEW r \in Requests, Turn(r)
    PROVE  Grown
BY Traces DEF Turn, Grown

LEMMA TurnRoutes ==
    ASSUME RouteInv, CallsPart, NEW r \in Requests, Moves(r), Turn(r)
    PROVE  RouteInv'
<1>1. StageFits(call'[r], req[r]) /\ req' = req /\ met' = met
  BY StageAfter DEF RouteInv, Turn
<1>2. InProgress(r) /\ \A q \in Requests : q # r => call'[q] = call[q]
  BY OthersStay
<1>3. \A q \in Requests : StageFits(call'[q], req'[q])
  BY <1>1, <1>2 DEF RouteInv, StagesPart
<1>4. StagesPart'
  BY <1>3 DEF StagesPart, StageFits
<1>5. call'[r].at # "new"
  BY Arriving DEF Arrives, Turn
<1>6. StartedPart'
  BY <1>1, <1>2, <1>5, Traces DEF RouteInv, StartedPart, Turn
<1>. QED  BY <1>4, <1>6 DEF RouteInv

(* A request that begins. *)
Begins(r) == Begin(r) /\ UNCHANGED <<deployment, up, restarts, torn>>

LEMMA BeginGives ==
    ASSUME CallsPart, NEW r \in Requests, Begins(r)
    PROVE  /\ call[r].at = "new" /\ up
           /\ \A q \in Requests : q # r => call'[q] = call[q] /\ req'[q] = req[q]
           /\ call'[r].at \in {"register", "login", "check"}
           /\ call'[r].domain = ""
           /\ call'[r].at \in {"register", "login"} => req'[r].op = call'[r].at
           /\ req'[r] \in deployment.offers
           /\ met' = met \cup {{r, q} : q \in {x \in Requests : InProgress(x)}}
<1>1. PICK ask \in deployment.offers, base \in Bases :
         /\ req' = [req EXCEPT ![r] = ask]
         /\ call' = [call EXCEPT ![r] = [Idle EXCEPT
                !.at = IF ask.op \in {"register", "login"} THEN ask.op ELSE "check",
                !.base = base]]
  BY DEF Begins, Begin
<1>2. req'[r] = ask /\ \A q \in Requests : q # r => req'[q] = req[q]
  BY <1>1 DEF CallsPart
<1> DEFINE at == IF ask.op \in {"register", "login"} THEN ask.op ELSE "check"
<1>3. at \in {"register", "login", "check"} /\ (at \in {"register", "login"} => ask.op = at)
  OBVIOUS
<1>4. call' = [call EXCEPT ![r] = [Idle EXCEPT !.at = at, !.base = base]]
  BY <1>1
<1> HIDE DEF at
<1>5. call'[r] = [Idle EXCEPT !.at = at, !.base = base]
      /\ \A q \in Requests : q # r => call'[q] = call[q]
  BY <1>4 DEF CallsPart
<1>6. call'[r].at = at /\ call'[r].domain = ""
  BY <1>5 DEF Idle
<1>. QED  BY <1>2, <1>3, <1>5, <1>6 DEF Begins, Begin

LEMMA BeginGrows ==
    ASSUME CallsPart, NEW r \in Requests, Begins(r)
    PROVE  Grown
<1>1. unsaved' = unsaved /\ torn' = torn
  BY DEF Begins, Begin, world
<1>. QED  BY <1>1, BeginGives DEF Grown

LEMMA BeginRoutes ==
    ASSUME RouteInv, CallsPart, NEW r \in Requests, Begins(r)
    PROVE  RouteInv'
<1>1. {"register", "login"} \subseteq Ops /\ "check" \notin Ops
  BY DEF Ops, AdminOps
<1>2. StageFits(call'[r], req'[r])
  BY <1>1, BeginGives DEF StageFits
<1>3. \A q \in Requests : StageFits(call'[q], req'[q])
  BY <1>2, BeginGives DEF RouteInv, StagesPart
<1>4. StagesPart'
  BY <1>3 DEF StagesPart, StageFits
<1>5. UNCHANGED <<crossed, unsaved>>
  BY DEF Begins, Begin, world, objects, marks
<1>6. ASSUME NEW q \in Requests, call'[q].at = "new"
      PROVE  q \notin crossed' /\ q \notin unsaved' /\ \A pair \in met' : q \notin pair
  <2>1. q # r /\ call[q].at = "new"
    BY <1>6, BeginGives
  <2>2. ASSUME NEW pair \in met', q \in pair PROVE FALSE
    <3>1. CASE pair \in met
      BY <2>1, <2>2, <3>1 DEF RouteInv, StartedPart
    <3>2. CASE pair \notin met
      <4> DEFINE working == {x \in Requests : InProgress(x)}
      <4>1. met' = met \cup {{r, x} : x \in working}
        BY BeginGives
      <4>2. \A x \in working : x \in Requests /\ call[x].at # "new"
        BY DEF InProgress
      <4> HIDE DEF working
      <4>3. PICK x \in working : pair = {r, x}
        BY <2>2, <3>2, <4>1
      <4>. QED  BY <2>1, <2>2, <4>2, <4>3
    <3>. QED  BY <3>1, <3>2
  <2>. QED  BY <1>5, <2>1, <2>2 DEF RouteInv, StartedPart
<1>. QED  BY <1>4, <1>6 DEF RouteInv, StartedPart

LEMMA CrashGives ==
    ASSUME CallsPart, Crash
    PROVE  \A q \in Requests : \/ ~InProgress(q) /\ call'[q] = call[q]
                               \/ call'[q].at = "done" /\ call'[q].domain = ""
BY DEF Crash, Idle

LEMMA CrashGrows ==
    ASSUME Crash
    PROVE  Grown
BY DEF Crash, Tear, Grown

LEMMA CrashRoutes ==
    ASSUME RouteInv, CallsPart, Crash
    PROVE  RouteInv'
<1>1. req' = req /\ met' = met /\ unsaved' = unsaved /\ crossed' = crossed
  BY DEF Crash, marks
<1>2. "done" \notin Ops
  BY DEF Ops, AdminOps
<1>3. ASSUME NEW q \in Requests PROVE StageFits(call'[q], req'[q])
  <2>1. StageFits(call[q], req[q])
    BY DEF RouteInv, StagesPart
  <2>2. CASE call'[q] = call[q]
    BY <1>1, <2>1, <2>2
  <2>3. CASE call'[q].at = "done" /\ call'[q].domain = ""
    BY <1>2, <2>3 DEF StageFits
  <2>. QED  BY <2>2, <2>3, CrashGives
<1>4. StagesPart'
  BY <1>3 DEF StagesPart, StageFits
<1>5. StartedPart'
  BY <1>1, CrashGives DEF RouteInv, StartedPart
<1>. QED  BY <1>4, <1>5 DEF RouteInv

(* Nothing of what requests share changes. *)
Idles == UNCHANGED <<req, call, met, torn, users, domains, pcaps, sessions, engine, notes,
                     nextPcap, nextSession, unsaved, overwrote, crossed>>

LEMMA IdleRoutes ==
    ASSUME RouteInv, Idles
    PROVE  RouteInv' /\ Grown
BY DEF RouteInv, StagesPart, StageFits, StartedPart, Idles, Grown
LEMMA BootGives ==
    ASSUME AccountsInv, Boot
    PROVE  /\ UNCHANGED <<req, call, met, torn, domains, pcaps, sessions, engine, notes,
                          nextPcap, nextSession, unsaved, overwrote, crossed>>
           /\ AtRest
           /\ \A n \in Names : \/ users'[n].domain = users[n].domain /\ users[n] # Absent
                               \/ users[n] = Absent /\ users'[n] = Absent
                               \/ users[n] = Absent /\ users'[n].domain = DefaultDomain
<1>1. UNCHANGED <<req, call, met, torn, domains, pcaps, sessions, engine, notes,
                  nextPcap, nextSession, unsaved, overwrote, crossed>>
  BY DEF Boot, objects, store, marks
<1>2. AtRest
  BY DEF Boot, AccountsInv, CallsPart
<1>3. users \in [Names -> Accounts \cup {Absent}]
  BY DEF AccountsInv, AccountsPart, AuthTypeOK
<1>4. ASSUME NEW n \in Names
      PROVE  \/ users'[n].domain = users[n].domain /\ users[n] # Absent
             \/ users[n] = Absent /\ users'[n] = Absent
             \/ users[n] = Absent /\ users'[n].domain = DefaultDomain
  <2>1. CASE users' = users
    BY <2>1
  <2>2. CASE users' # users
    <3>1. PICK ok \in BOOLEAN : EnsureAdmin(deployment.admin, ok) /\ deployment.admin \in Names
      BY <2>2 DEF Boot, auth
    <3> DEFINE m == deployment.admin
    <3>2. CASE users[m].role = "user" /\ users' = [users EXCEPT ![m].role = "admin"]
      <4>1. users[m] # Absent
        <5>1. Absent.role # "user"
          BY DEF Absent
        <5>. QED  BY <3>2, <5>1
      <4>2. users[m] \in Accounts
        BY <1>3, <3>1, <4>1
      <4>3. users'[m].domain = users[m].domain
        BY <1>3, <3>1, <3>2, <4>2 DEF Accounts
      <4>4. n # m => users'[n] = users[n]
        BY <1>3, <3>2
      <4>. QED  BY <4>1, <4>3, <4>4
    <3>3. CASE users[m] = Absent /\ users' = [users EXCEPT ![m] = Account("admin", DefaultDomain)]
      <4>1. users'[m].domain = DefaultDomain
        BY <1>3, <3>1, <3>3 DEF Account
      <4>2. n # m => users'[n] = users[n]
        BY <1>3, <3>3
      <4>. QED  BY <3>3, <4>1, <4>2
    <3>. QED
      BY <2>2, <3>1, <3>2, <3>3 DEF EnsureAdmin, RegisterUser, Save, auth
  <2>. QED  BY <2>1, <2>2
<1>. QED  BY <1>1, <1>2, <1>4

LEMMA BootGrows ==
    ASSUME AccountsInv, Boot
    PROVE  Grown
BY BootGives DEF Grown

LEMMA BootRoutes ==
    ASSUME RouteInv, AccountsInv, Boot
    PROVE  RouteInv'
BY BootGives DEF RouteInv, StagesPart, StageFits, StartedPart

LEMMA RoutesInit ==
    ASSUME Init
    PROVE  RouteInv
<1>1. /\ call = [r \in Requests |-> Idle]
      /\ met = {} /\ unsaved = {} /\ crossed = {}
  BY DEF Init, ApiInit
<1>2. Idle.at = "new" /\ Idle.domain = ""
  BY DEF Idle
<1>. QED  BY <1>1, <1>2, StagesApart DEF RouteInv, StagesPart, StartedPart, StageFits

(***************************************************************************)
(* Accounts that are removed or moved while a request relies on them.      *)
(***************************************************************************)
LEMMA ShiftedStays ==
    ASSUME StartedPart, Grown, NEW r \in Requests, Shifted(r)
    PROVE  Shifted(r)'
<1>1. PICK q \in Requests : {q, r} \in met /\ req[q].op \in Movers
  BY DEF Shifted
<1>2. call[q].at # "new"
  BY <1>1 DEF StartedPart
<1>. QED  BY <1>1, <1>2 DEF Shifted, Grown

(* Only a mover takes an account out of its domain. *)
LEMMA DomainsMove ==
    ASSUME AuthTypeOK, CallsPart, StagesPart, NEW r \in Requests, Handle(r), NEW n \in Names
    PROVE  users'[n].domain = users[n].domain \/ users[n] = Absent \/ req[r].op \in Movers
<1>1. Frames(r) /\ StageFits(call[r], req[r])
  BY Framing DEF StagesPart
<1>2. CASE CreateUser(r)
  <2>1. PICK ok \in BOOLEAN : RegisterUser(req[r].name, RoleAsked(r), DomainAsked(r), ok)
    BY <1>2 DEF CreateUser
  <2> DEFINE a == Account(RoleAsked(r), DomainAsked(r))
  <2>2. \/ users' = users
        \/ users[req[r].name] = Absent /\ users' = [users EXCEPT ![req[r].name] = a]
    BY <2>1 DEF RegisterUser, Save
  <2> HIDE DEF a
  <2>. QED  BY <2>2 DEF AuthTypeOK
<1>3. CASE Delete(r)
  <2>1. call[r].at \in Ops \/ call[r].at = "delete"
    BY <1>3 DEF Delete, Ops, AdminOps
  <2>2. req[r].op \in {"adminUsersDelete", "domainUsersDelete"}
    BY <1>1, <1>3, <2>1 DEF StageFits, Delete
  <2>. QED  BY <2>2 DEF Movers
<1>4. CASE NameOwner(r) \/ MoveUser(r)
  BY <1>1, <1>4 DEF StageFits, NameOwner, MoveUser, Movers
<1>. QED  BY <1>1, <1>2, <1>3, <1>4 DEF Frames

HomePart ==
    \A r \in Requests :
      /\ call[r].at = "info" =>
           /\ call[r].home \in Domains
           /\ users[call[r].user].domain = call[r].home \/ Shifted(r)
      /\ call[r].domain \notin {"", call[r].home} => Shifted(r)
      /\ call[r].at \in {"spare", "delete"} =>
            users[req[r].name].domain = call[r].domain \/ Shifted(r)

(* The account n that q relies on is still in the domain it was in. *)
LEMMA StillThere ==
    ASSUME AuthTypeOK, CallsPart, RouteInv, NEW r \in Requests, NEW q \in Requests, q # r,
           Turn(r), InProgress(r), InProgress(q), NEW n \in Names, NEW d \in Domains,
           users[n].domain = d \/ Shifted(q)
    PROVE  users'[n].domain = d \/ Shifted(q)'
<1>1. CASE Shifted(q)
  BY <1>1, ShiftedStays, TurnGrows DEF RouteInv
<1>2. CASE users[n].domain = d
  <2>1. users[n] # Absent
    <3>1. Absent.domain = "" /\ "" \notin Domains
      BY AccountsAssumption DEF Absent
    <3>. QED  BY <1>2, <3>1
  <2>2. CASE users'[n].domain = users[n].domain
    BY <1>2, <2>2
  <2>3. CASE req[r].op \in Movers
    <3>1. {r, q} \in met
      BY DEF CallsPart, Met
    <3>2. met' = met /\ req' = req
      BY DEF Turn
    <3>. QED  BY <2>3, <3>1, <3>2 DEF Shifted
  <2>. QED  BY <2>1, <2>2, <2>3, DomainsMove DEF RouteInv, Turn
<1>. QED  BY <1>1, <1>2
(* What Check and Info write. *)
LEMMA CheckGives ==
    ASSUME AccountsInv, NEW r \in Requests, Check(r), ~Answer(r)
    PROVE  /\ call'[r].user = tokens[req[r].token] /\ call'[r].user \in Names
           /\ call'[r].home = users[call'[r].user].domain
           /\ call'[r].home \in Domains
           /\ call'[r].domain = call[r].domain
           /\ call'[r].at = "info"
<1>1. call[r] \in Calls /\ req[r] \in Asks /\ call \in [Requests -> Calls]
  BY DEF AccountsInv, CallsPart
<1> DEFINE user == tokens[req[r].token]
           home == users[user].domain
<1>2. user \in Names /\ call' = [call EXCEPT ![r].at = "info", ![r].user = user, ![r].home = home]
  BY DEF Check
<1>3. users[user] # Absent
  BY <1>1, <1>2 DEF AccountsInv, AccountsPart, TokensHaveAccounts, Asks
<1>4. users[user] \in Accounts
  BY <1>2, <1>3 DEF AccountsInv, AccountsPart, AuthTypeOK
<1>5. home \in Domains
  BY <1>4 DEF Accounts
<1> HIDE DEF user
<1> DEFINE c == [call[r] EXCEPT !.at = "info", !.user = user, !.home = home]
<1>6. call'[r] = c
  BY <1>1, <1>2
<1> HIDE DEF home
<1>7. c.user = user /\ c.home = home /\ c.domain = call[r].domain /\ c.at = "info"
  BY <1>1 DEF Calls
<1> HIDE DEF c
<1>. QED  BY <1>2, <1>5, <1>6, <1>7 DEF user, home

LEMMA InfoGives ==
    ASSUME AccountsInv, NEW r \in Requests, Info(r), ~Answer(r)
    PROVE  /\ call[r].user \in Names
           /\ call'[r].at = Handler(req[r].op)
           /\ call'[r].home = call[r].home /\ call'[r].user = call[r].user
           /\ call'[r].left = req[r].ids
           /\ call'[r].domain \in Domains
           /\ \/ users[call[r].user].domain = "" /\ call'[r].domain = DefaultDomain
              \/ users[call[r].user].domain = call'[r].domain
<1>1. /\ call[r] \in Calls /\ call \in [Requests -> Calls]
      /\ CallFits(call[r], req[r]) /\ call[r].at = "info"
  BY DEF AccountsInv, CallsPart, Info
<1>2. call[r].user \in Names
  BY <1>1 DEF CallFits
<1> DEFINE info == users[call[r].user]
           domain == IF info.domain = "" THEN DefaultDomain ELSE info.domain
           at == Handler(req[r].op)
           c == [call[r] EXCEPT !.role = info.role, !.domain = domain,
                                !.left = req[r].ids, !.at = at]
<1>3. /\ domain \in Domains
      /\ \/ info.domain = "" /\ domain = DefaultDomain
         \/ info.domain = domain
  BY <1>2, InfoTyped, AccountsAssumption DEF AccountsInv, AccountsPart
<1>4. call'[r] = c
  BY <1>1 DEF Info, Caller
<1> HIDE DEF domain, info, at
<1>5. /\ c.at = at /\ c.home = call[r].home /\ c.user = call[r].user
      /\ c.left = req[r].ids /\ c.domain = domain
  BY <1>1 DEF Calls
<1> HIDE DEF c
<1>. QED  BY <1>2, <1>3, <1>4, <1>5 DEF at, info

LEMMA TurnHome ==
    ASSUME AccountsInv, RouteInv, HomePart, NEW r \in Requests, Turn(r)
    PROVE  HomePart'
<1>1. CallsPart /\ AuthTypeOK /\ Handle(r) /\ req' = req /\ met' = met
  BY DEF AccountsInv, AccountsPart, Turn
<1>2. Moves(r) /\ Arrives(r)
  BY <1>1, HandleMoves, Arriving DEF AccountsInv
<1>3. InProgress(r) /\ \A q \in Requests : q # r => call'[q] = call[q]
  BY <1>1, <1>2, OthersStay
<1>4. ASSUME NEW q \in Requests, Shifted(q) PROVE Shifted(q)'
  BY <1>4, ShiftedStays, TurnGrows DEF RouteInv
<1>5. ASSUME NEW q \in Requests, q # r
      PROVE  /\ call[q].at = "info" =>
                  /\ call[q].home \in Domains
                  /\ users'[call[q].user].domain = call[q].home \/ Shifted(q)'
             /\ call[q].domain \notin {"", call[q].home} => Shifted(q)'
             /\ call[q].at \in {"spare", "delete"} =>
                   users'[req[q].name].domain = call[q].domain \/ Shifted(q)'
  <2>1. CallFits(call[q], req[q]) /\ StageFits(call[q], req[q]) /\ req[q] \in Asks
    BY <1>1 DEF CallsPart, RouteInv, StagesPart
  <2>2. CASE call[q].at = "info"
    <3>1. call[q].user \in Names /\ InProgress(q)
      BY <2>1, <2>2 DEF CallFits, InProgress
    <3>. QED  BY <1>1, <1>3, <1>4, <1>5, <2>2, <3>1, StillThere DEF HomePart
  <2>3. CASE call[q].at \in {"spare", "delete"}
    <3>1. call[q].domain \in Domains /\ req[q].name \in Names /\ InProgress(q)
      BY <2>1, <2>3 DEF CallFits, StageFits, InProgress, Asks
    <3>. QED  BY <1>1, <1>3, <1>4, <1>5, <2>3, <3>1, StillThere DEF HomePart
  <2>. QED  BY <1>4, <2>2, <2>3 DEF HomePart
<1> DEFINE d == call'[r]
<1>6. /\ d.at = "info" =>
           /\ d.home \in Domains
           /\ users'[d.user].domain = d.home \/ Shifted(r)'
      /\ d.domain \notin {"", d.home} => Shifted(r)'
      /\ d.at \in {"spare", "delete"} =>
            users'[req[r].name].domain = d.domain \/ Shifted(r)'
  <2>1. CASE Answer(r)
    <3>1. d.at = "done" /\ d.domain = ""
      BY <1>1, <2>1, AnswerGives
    <3>. QED  BY <3>1
  <2>2. CASE Check(r) /\ ~Answer(r)
    <3>1. users' = users
      BY <2>2 DEF Check, world, auth
    <3>2. call[r].domain = ""
      BY <2>2 DEF RouteInv, StagesPart, StageFits, Check
    <3>. QED  BY <2>2, <3>1, <3>2, CheckGives
  <2>3. CASE Info(r) /\ ~Answer(r)
    <3>1. d.at \in Ops \cup {"owner", "find"}
      <4>1. req[r].op \in Ops
        BY <1>1 DEF CallsPart, Asks
      <4>2. d.at = Handler(req[r].op)
        BY <2>3, InfoGives
      <4>. QED  BY <4>1, <4>2, OpsPlaces
    <3>2. d.at \notin {"info", "spare", "delete"}
      BY <3>1, StagesApart
    <3>3. /\ call[r].home \in Domains
          /\ users[call[r].user].domain = call[r].home \/ Shifted(r)
      BY <2>3 DEF HomePart, Info
    <3>4. d.domain # d.home => Shifted(r)
      BY <2>3, <3>3, InfoGives, AccountsAssumption
    <3>. QED  BY <1>4, <3>2, <3>4
  <2>4. CASE Continues(r, d.at) /\ d.at # "info"
    <3>1. d.domain \notin {"", d.home} => Shifted(r)'
      BY <1>4, <2>4 DEF HomePart, Continues
    <3>2. CASE d.at = "spare"
      <4>1. Victim(r)
        BY <1>2, <3>2 DEF Arrives
      <4>2. ~Answer(r)
        BY <1>1, <3>2, AnswerGives
      <4>3. users[req[r].name] = Account("user", call[r].domain) /\ users' = users
        BY <4>1, <4>2 DEF Victim, world, auth
      <4>4. Account("user", call[r].domain).domain = call[r].domain
        BY DEF Account
      <4>. QED  BY <2>4, <3>1, <3>2, <4>3, <4>4 DEF Continues
    <3>3. CASE d.at = "delete"
      <4>1. SpareOwner(r)
        BY <1>2, <3>3 DEF Arrives
      <4>2. users' = users /\ call[r].at = "spare"
        BY <4>1 DEF SpareOwner, world, auth
      <4>. QED  BY <1>4, <2>4, <3>1, <3>3, <4>2 DEF HomePart, Continues
    <3>. QED  BY <2>4, <3>1, <3>2, <3>3
  <2>5. Answer(r) \/ Check(r) \/ Info(r) \/ (Continues(r, d.at) /\ d.at # "info")
    BY <1>2 DEF Arrives
  <2>. QED  BY <2>1, <2>2, <2>3, <2>4, <2>5
<1>7. \A q \in Requests :
         /\ call'[q].at = "info" =>
              /\ call'[q].home \in Domains
              /\ users'[call'[q].user].domain = call'[q].home \/ Shifted(q)'
         /\ call'[q].domain \notin {"", call'[q].home} => Shifted(q)'
         /\ call'[q].at \in {"spare", "delete"} =>
               users'[req'[q].name].domain = call'[q].domain \/ Shifted(q)'
  BY <1>1, <1>3, <1>5, <1>6
<1>. QED  BY <1>7 DEF HomePart
LEMMA BeginHome ==
    ASSUME CallsPart, RouteInv, HomePart, NEW r \in Requests, Begins(r)
    PROVE  HomePart'
<1>1. users' = users
  BY DEF Begins, Begin, world, auth
<1>2. ASSUME NEW q \in Requests, Shifted(q) PROVE Shifted(q)'
  BY <1>2, ShiftedStays, BeginGrows DEF RouteInv
<1>3. \A q \in Requests : q # r => call'[q] = call[q] /\ req'[q] = req[q]
  BY BeginGives
<1>4. call'[r].at \notin {"info", "spare", "delete"} /\ call'[r].domain = ""
  BY BeginGives
<1>5. \A q \in Requests :
         /\ call'[q].at = "info" =>
              /\ call'[q].home \in Domains
              /\ users'[call'[q].user].domain = call'[q].home \/ Shifted(q)'
         /\ call'[q].domain \notin {"", call'[q].home} => Shifted(q)'
         /\ call'[q].at \in {"spare", "delete"} =>
               users'[req'[q].name].domain = call'[q].domain \/ Shifted(q)'
  BY <1>1, <1>2, <1>3, <1>4 DEF HomePart
<1>. QED  BY <1>5 DEF HomePart

(* Nobody is in progress who could rely on an account. *)
LEMMA RestHome ==
    ASSUME RouteInv, HomePart, Grown,
           \A q \in Requests : \/ ~InProgress(q) /\ call'[q] = call[q]
                               \/ call'[q].at = "done" /\ call'[q].domain = ""
    PROVE  HomePart'
<1>1. ASSUME NEW q \in Requests, Shifted(q) PROVE Shifted(q)'
  BY <1>1, ShiftedStays DEF RouteInv
<1>2. \A q \in Requests :
         /\ call'[q].at \notin {"info", "spare", "delete"}
         /\ call'[q].domain \notin {"", call'[q].home} => Shifted(q)'
  BY <1>1 DEF HomePart, InProgress
<1>. QED  BY <1>2 DEF HomePart

LEMMA IdleHome ==
    ASSUME HomePart, Idles
    PROVE  HomePart'
BY DEF HomePart, Idles, Shifted

LEMMA HomeInit ==
    ASSUME Init
    PROVE  HomePart
<1>1. call = [r \in Requests |-> Idle]
  BY DEF Init, ApiInit
<1>2. Idle.at = "new" /\ Idle.domain = ""
  BY DEF Idle
<1>. QED  BY <1>1, <1>2 DEF HomePart

(***************************************************************************)
(* The library: numbers are given once, and what a request found under a   *)
(* number is still there or gone.                                          *)
(***************************************************************************)
Starting == {r \in Requests : call[r].at = "start"}
Made(r) == Object(call[r].made, call[r].domain, r)

LibraryTypes ==
    /\ pcaps \subseteq Objects /\ sessions \subseteq Objects /\ engine \subseteq Objects
    /\ nextPcap \in 1 .. MaxIds + 1 /\ nextSession \in 1 .. MaxIds + 1
    /\ notes \in [Ids -> Requests \cup {Seed, Gone}]
    /\ \A r \in Starting : Made(r) \in Objects
    /\ crossed \subseteq Requests

PcapNumbers ==
    /\ \A p \in pcaps : p.id < nextPcap
    /\ \A o, p \in pcaps : o.id = p.id => o = p

Opened == sessions \cup engine \cup {Made(r) : r \in Starting}

SessionNumbers ==
    /\ \A s \in Opened : s.id < nextSession
    /\ \A s, t \in Opened : s.id = t.id => s = t
    /\ \A r \in Starting, s \in engine : s.id # call[r].made

PcapAgrees(lib, next, i, d) == i < next /\ \A p \in lib : p.id = i => p.domain = d

SessionAgrees(lib, pending, next, i, d) ==
    /\ i < next
    /\ \A s \in lib : s.id = i => s.domain = d
    /\ i \notin pending

(* Captures that a request found to be of its domain. *)
PcapsFound(c, ask, lib, next) ==
    /\ c.at \in {"mayDelete", "removePcap"} => PcapAgrees(lib, next, ask.id, c.domain)
    /\ c.at \in {"sessionsPost", "addSession"} =>
          \A i \in ask.ids : i \in c.left \/ PcapAgrees(lib, next, i, c.domain)
    /\ c.at = "addSession" => c.left = {}

(* Sessions that a request found, took from the engine or has to evict. *)
SessionsFound(c, ask, stored, run, pending, next) ==
    /\ c.at \in {"engineRemove", "storeRemove", "readNotes", "writeNotes"} =>
          SessionAgrees(stored \cup run, pending, next, ask.id, c.domain)
    /\ c.at = "storeRemove" => \A s \in run : s.id # ask.id
    /\ c.at = "evict" => \A i \in c.left : i < next /\ \A s \in stored : s.id # i

Pending == {call[r].made : r \in Starting}

LibraryInv ==
    /\ LibraryTypes /\ PcapNumbers /\ SessionNumbers
    /\ \A r \in Requests : PcapsFound(call[r], req[r], pcaps, nextPcap)
    /\ \A r \in Requests :
         SessionsFound(call[r], req[r], sessions, engine, Pending, nextSession)
    /\ Isolated

(* Which step is taken from where. *)
Departs(r) ==
    /\ call[r].at = "check" => Check(r)
    /\ call[r].at = "info" => Info(r)
    /\ call[r].at = "start" => Start(r)
    /\ call[r].at = "storeRemove" => StoreRemove(r)
    /\ call[r].at = "evict" => Evict(r)
    /\ call[r].at = "listUsers" => ListUsers(r)
    /\ call[r].at = "moveUsers" => MoveUser(r)

LEMMA Departing ==
    ASSUME NEW r \in Requests, Handle(r)
    PROVE  Departs(r)
<1>1. ASSUME call[r].at \notin {"check", "info", "start", "storeRemove", "evict", "listUsers",
                                "moveUsers"}
      PROVE  Departs(r)
  BY <1>1 DEF Departs
<1>2. CASE AskBootstrap(r) \/ UserDomain(r) \/ OwnerOnly(r) \/ Victim(r) \/ SpareOwner(r)
           \/ AskOwner(r)
  BY <1>1, <1>2 DEF AskBootstrap, UserDomain, OwnerOnly, Victim, SpareOwner, AskOwner
<1>3. CASE CreateUser(r) \/ LogIn(r) \/ LogOut(r) \/ Delete(r) \/ AddDomain(r) \/ NameOwner(r)
           \/ RollBack(r) \/ RemoveDomain(r)
  BY <1>1, <1>3 DEF CreateUser, LogIn, LogOut, Delete, AddDomain, NameOwner, RollBack, RemoveDomain
<1>4. CASE AddPcap(r) \/ CheckPcap(r) \/ MayDelete(r) \/ RemovePcap(r) \/ CheckSources(r)
           \/ AddSession(r) \/ Find(r) \/ EngineRemove(r) \/ ReadNotes(r) \/ WriteNotes(r)
  BY <1>1, <1>4 DEF AddPcap, CheckPcap, MayDelete, RemovePcap, CheckSources, AddSession, Find,
                    EngineRemove, ReadNotes, WriteNotes
<1>5. CASE Check(r) \/ Info(r) \/ Evict(r) \/ ListUsers(r) \/ MoveUser(r) \/ Start(r)
           \/ StoreRemove(r)
  BY <1>5 DEF Departs, Check, Info, Evict, ListUsers, MoveUser, Start, StoreRemove
<1>. QED  BY <1>2, <1>3, <1>4, <1>5 DEF Handle

LEMMA PcapEffect ==
    ASSUME NEW r \in Requests, Handle(r)
    PROVE  \/ pcaps' \subseteq pcaps /\ nextPcap' = nextPcap
           \/ /\ nextPcap \in Ids /\ nextPcap' = nextPcap + 1
              /\ pcaps' = pcaps \cup {Object(nextPcap, call[r].domain, r)}
              /\ AddPcap(r)
<1>1. Frames(r)
  BY Framing
<1>2. CASE AddPcap(r)
  BY <1>2 DEF AddPcap
<1>3. CASE RemovePcap(r)
  BY <1>3 DEF RemovePcap
<1>4. CASE RollBack(r) \/ RemoveDomain(r)
  BY <1>4 DEF RollBack, RemoveDomain, DropDomain, Elsewhere, store
<1>. QED  BY <1>1, <1>2, <1>3, <1>4 DEF Frames

LEMMA PcapStep ==
    ASSUME LibraryTypes, PcapNumbers, NEW r \in Requests, Handle(r)
    PROVE  /\ PcapNumbers'
           /\ \A i \in Ids : \A d : PcapAgrees(pcaps, nextPcap, i, d) =>
                                    PcapAgrees(pcaps', nextPcap', i, d)
<1>1. nextPcap \in Nat /\ Ids \subseteq Nat /\ \A p \in pcaps : p.id \in Ids
  BY ApiAssumption DEF LibraryTypes, Ids, Objects
<1>2. CASE pcaps' \subseteq pcaps /\ nextPcap' = nextPcap
  BY <1>2 DEF PcapNumbers, PcapAgrees
<1>3. CASE /\ nextPcap' = nextPcap + 1
           /\ pcaps' = pcaps \cup {Object(nextPcap, call[r].domain, r)}
  <2> DEFINE new == Object(nextPcap, call[r].domain, r)
  <2>1. new.id = nextPcap
    BY DEF Object
  <2> HIDE DEF new
  <2>2. pcaps' = pcaps \cup {new}
    BY <1>3 DEF new
  <2>3. \A p \in pcaps : p.id < nextPcap /\ p.id # new.id
    BY <1>1, <2>1 DEF PcapNumbers
  <2>4. PcapNumbers'
    <3>1. ASSUME NEW p \in pcaps' PROVE p.id < nextPcap'
      <4>1. p.id \in Nat /\ (p.id < nextPcap \/ p.id = nextPcap)
        BY <1>1, <2>1, <2>2, <2>3
      <4> DEFINE i == p.id
      <4> HIDE DEF i
      <4>2. i \in Nat /\ nextPcap \in Nat /\ (i < nextPcap \/ i = nextPcap)
        BY <1>1, <4>1 DEF i
      <4>3. i < nextPcap + 1
        BY <4>2
      <4>. QED  BY <1>3, <4>3 DEF i
    <3>2. \A o, p \in pcaps' : o.id = p.id => o = p
      BY <2>2, <2>3 DEF PcapNumbers
    <3>. QED  BY <3>1, <3>2 DEF PcapNumbers
  <2>5. ASSUME NEW i \in Ids, NEW d, PcapAgrees(pcaps, nextPcap, i, d)
        PROVE  PcapAgrees(pcaps', nextPcap', i, d)
    BY <1>1, <1>3, <2>1, <2>2, <2>5 DEF PcapAgrees
  <2>. QED  BY <2>4, <2>5
<1>. QED  BY <1>2, <1>3, PcapEffect

LEMMA FoundPcap ==
    ASSUME PcapNumbers, NEW r \in Requests, NEW i \in Ids, InDomain(pcaps, i, r)
    PROVE  PcapAgrees(pcaps, nextPcap, i, call[r].domain)
BY DEF PcapNumbers, InDomain, PcapAgrees

LEMMA SourceGives ==
    ASSUME CallsPart, NEW r \in Requests, CheckSources(r), ~Answer(r)
    PROVE  /\ call'[r].at \in {"sessionsPost", "addSession"}
           /\ call'[r].domain = call[r].domain
           /\ call'[r].at = "addSession" => call[r].left = {} /\ call'[r].left = {}
           /\ call'[r].at = "sessionsPost" =>
                \E i \in call[r].left : /\ InDomain(pcaps, i, r)
                                        /\ call'[r].left = call[r].left \ {i}
<1>1. call[r] \in Calls
  BY DEF CallsPart
<1>2. CASE call[r].left = {} /\ Goto(r, "addSession")
  <2>1. Continues(r, "addSession") /\ call'[r].left = call[r].left
    BY <1>2, GotoGives DEF Stages
  <2>. QED  BY <1>2, <2>1 DEF Continues
<1>3. CASE ~Goto(r, "addSession")
  <2>1. PICK i \in call[r].left : InDomain(pcaps, i, r) /\ call' = [call EXCEPT ![r].left = @ \ {i}]
    BY <1>3 DEF CheckSources
  <2>2. call'[r] = [call[r] EXCEPT !.left = @ \ {i}] /\ call[r].at = "sessionsPost"
    BY <2>1 DEF CallsPart, CheckSources
  <2>3. /\ call'[r].at = "sessionsPost" /\ call'[r].domain = call[r].domain
        /\ call'[r].left = call[r].left \ {i}
    BY <1>1, <2>2 DEF Calls
  <2>. QED  BY <2>1, <2>3
<1>4. Goto(r, "addSession") => call[r].left = {}
  <2>1. CASE \E i \in call[r].left : call' = [call EXCEPT ![r].left = @ \ {i}]
    <3>1. PICK i \in call[r].left : call' = [call EXCEPT ![r].left = @ \ {i}]
      BY <2>1
    <3>2. call'[r] = [call[r] EXCEPT !.left = @ \ {i}] /\ call[r].at = "sessionsPost"
      BY <3>1 DEF CallsPart, CheckSources
    <3>3. call'[r].at = "sessionsPost"
      BY <1>1, <3>2 DEF Calls
    <3>4. Goto(r, "addSession") => call'[r].at = "addSession"
      BY GotoGives DEF Continues, Stages
    <3>. QED  BY <3>3, <3>4
  <2>. QED  BY <2>1 DEF CheckSources
<1>. QED  BY <1>2, <1>3, <1>4
(* The captures that r found itself. *)
LEMMA PcapsOwn ==
    ASSUME AccountsInv, PcapNumbers, LibraryTypes, NEW r \in Requests, Turn(r),
           PcapsFound(call[r], req[r], pcaps, nextPcap)
    PROVE  PcapsFound(call'[r], req[r], pcaps', nextPcap')
<1>1. CallsPart /\ Handle(r) /\ req[r] \in Asks
  BY DEF AccountsInv, CallsPart, Turn
<1>2. Arrives(r)
  BY <1>1, Arriving
<1>3. req[r].id \in Ids /\ req[r].ids \subseteq Ids
  BY <1>1 DEF Asks
<1>4. ASSUME NEW i \in Ids, NEW d, PcapAgrees(pcaps, nextPcap, i, d)
      PROVE  PcapAgrees(pcaps', nextPcap', i, d)
  BY <1>1, <1>4, PcapStep
<1> DEFINE to == call'[r].at
           d == call'[r].domain
<1>5. to = "mayDelete" => PcapAgrees(pcaps', nextPcap', req[r].id, d)
  <2> SUFFICES ASSUME to = "mayDelete" PROVE PcapAgrees(pcaps', nextPcap', req[r].id, d)
    OBVIOUS
  <2>1. CheckPcap(r) /\ d = call[r].domain
    BY <1>2 DEF Arrives, Continues
  <2>2. ~Answer(r)
    BY <1>1, AnswerGives
  <2>3. InDomain(pcaps, req[r].id, r)
    BY <2>1, <2>2 DEF CheckPcap
  <2>4. PcapAgrees(pcaps, nextPcap, req[r].id, call[r].domain)
    BY <1>3, <2>3, FoundPcap
  <2>. QED  BY <1>3, <1>4, <2>1, <2>4
<1>6. to = "removePcap" => PcapAgrees(pcaps', nextPcap', req[r].id, d)
  <2> SUFFICES ASSUME to = "removePcap" PROVE PcapAgrees(pcaps', nextPcap', req[r].id, d)
    OBVIOUS
  <2>1. MayDelete(r) /\ d = call[r].domain
    BY <1>2 DEF Arrives, Continues
  <2>2. PcapAgrees(pcaps, nextPcap, req[r].id, call[r].domain)
    BY <2>1 DEF MayDelete, PcapsFound
  <2>. QED  BY <1>3, <1>4, <2>1, <2>2
<1>7. to \in {"sessionsPost", "addSession"} =>
         \A i \in req[r].ids : i \in call'[r].left \/ PcapAgrees(pcaps', nextPcap', i, d)
  <2> SUFFICES ASSUME to \in {"sessionsPost", "addSession"}, NEW i \in req[r].ids,
                      i \notin call'[r].left
               PROVE  PcapAgrees(pcaps', nextPcap', i, d)
    OBVIOUS
  <2>1. i \in Ids /\ ~Answer(r)
    BY <1>1, <1>3, AnswerGives
  <2>2. CASE Info(r)
    BY <2>1, <2>2, InfoGives
  <2>3. CASE CheckSources(r)
    <3>1. call[r].at = "sessionsPost" /\ d = call[r].domain
      BY <1>1, <2>1, <2>3, SourceGives DEF CheckSources
    <3>2. i \in call[r].left => InDomain(pcaps, i, r)
      BY <1>1, <2>1, <2>3, SourceGives
    <3>3. i \notin call[r].left => PcapAgrees(pcaps, nextPcap, i, call[r].domain)
      BY <3>1 DEF PcapsFound
    <3>4. PcapAgrees(pcaps, nextPcap, i, call[r].domain)
      BY <2>1, <3>2, <3>3, FoundPcap
    <3>. QED  BY <1>4, <2>1, <3>1, <3>4
  <2>4. Info(r) \/ CheckSources(r)
    BY <1>2 DEF Arrives, Ops
  <2>. QED  BY <2>2, <2>3, <2>4
<1>8. to = "addSession" => call'[r].left = {}
  <2> SUFFICES ASSUME to = "addSession" PROVE call'[r].left = {}
    OBVIOUS
  <2>1. CheckSources(r) /\ ~Answer(r)
    BY <1>1, <1>2, AnswerGives DEF Arrives
  <2>. QED  BY <1>1, <2>1, SourceGives
<1>. QED  BY <1>5, <1>6, <1>7, <1>8 DEF PcapsFound

LEMMA PcapsOthers ==
    ASSUME CallsPart, PcapNumbers, LibraryTypes, NEW r \in Requests, Handle(r), NEW q \in Requests,
           PcapsFound(call[q], req[q], pcaps, nextPcap)
    PROVE  PcapsFound(call[q], req[q], pcaps', nextPcap')
<1>1. req[q].id \in Ids /\ req[q].ids \subseteq Ids
  BY DEF CallsPart, Asks
<1>. QED  BY <1>1, PcapStep DEF PcapsFound
(***************************************************************************)
(* The sessions: one is numbered by the store, then started.               *)
(***************************************************************************)
(* Request r makes the store drop, or the engine forget, some.             *)
SessionsShrink ==
    /\ sessions' \subseteq sessions /\ engine' \subseteq engine
    /\ nextSession' = nextSession
    /\ Starting' = Starting /\ \A q \in Starting : call'[q] = call[q]

SessionAdded(r) ==
    /\ AddSession(r) /\ ~Answer(r)
    /\ nextSession \in Ids /\ nextSession' = nextSession + 1
    /\ sessions' = sessions \cup {Object(nextSession, call[r].domain, r)}
    /\ notes' = [notes EXCEPT ![nextSession] = Seed]
    /\ engine' = engine
    /\ r \notin Starting /\ Starting' = Starting \cup {r}
    /\ \A q \in Starting : call'[q] = call[q]
    /\ call'[r].made = nextSession /\ call'[r].domain = call[r].domain

SessionStarted(r) ==
    /\ Start(r)
    /\ sessions' = sessions /\ nextSession' = nextSession
    /\ engine' = engine \cup {Made(r)}
    /\ r \in Starting /\ Starting' = Starting \ {r}
    /\ \A q \in Starting' : call'[q] = call[q]

LEMMA SessionEffect ==
    ASSUME CallsPart, NEW r \in Requests, Moves(r), Handle(r)
    PROVE  SessionsShrink \/ SessionAdded(r) \/ SessionStarted(r)
<1>1. Frames(r) /\ Arrives(r) /\ Departs(r)
  BY Framing, Arriving, Departing
<1>2. InProgress(r) /\ \A q \in Requests : q # r => call'[q] = call[q]
  BY OthersStay
<1>3. \A q \in Requests : (q \in Starting <=> call[q].at = "start")
                          /\ (q \in Starting' <=> call'[q].at = "start")
  BY DEF Starting
<1>4. Starting \subseteq Requests /\ Starting' \subseteq Requests
  BY DEF Starting
<1>5. CASE AddSession(r) /\ ~Answer(r)
  <2>1. /\ nextSession \in Ids /\ nextSession' = nextSession + 1
        /\ sessions' = sessions \cup {Object(nextSession, call[r].domain, r)}
        /\ notes' = [notes EXCEPT ![nextSession] = Seed]
        /\ engine' = engine /\ call[r].at = "addSession"
        /\ call' = [call EXCEPT ![r].at = "start", ![r].made = nextSession]
    BY <1>5 DEF AddSession
  <2>2. call[r] \in Calls
    BY DEF CallsPart
  <2>3. call'[r] = [call[r] EXCEPT !.at = "start", !.made = nextSession]
    BY <2>1 DEF CallsPart
  <2>4. call'[r].at = "start" /\ call'[r].made = nextSession /\ call'[r].domain = call[r].domain
    BY <2>2, <2>3 DEF Calls
  <2>5. r \notin Starting /\ Starting' = Starting \cup {r}
    BY <1>2, <1>3, <1>4, <2>1, <2>4
  <2>6. \A q \in Starting : call'[q] = call[q]
    BY <1>2, <1>4, <2>5
  <2>. QED  BY <1>5, <2>1, <2>4, <2>5, <2>6 DEF SessionAdded
<1>6. CASE Start(r)
  <2>1. /\ call[r].at = "start" /\ Answer(r)
        /\ engine' = engine \cup {Object(call[r].made, call[r].domain, r)}
        /\ sessions' = sessions /\ nextSession' = nextSession
    BY <1>6 DEF Start, store
  <2>2. call'[r].at = "done"
    BY <2>1, AnswerGives
  <2>3. r \in Starting /\ Starting' = Starting \ {r}
    BY <1>2, <1>3, <1>4, <2>1, <2>2
  <2>. QED  BY <1>2, <1>4, <1>6, <2>1, <2>3 DEF SessionStarted, Made
<1>7. CASE ~Start(r) /\ ~(AddSession(r) /\ ~Answer(r))
  <2>1. call[r].at # "start"
    BY <1>1, <1>7 DEF Departs
  <2>2. call'[r].at # "start"
    <3>1. Answer(r) => call'[r].at # "start"
      BY AnswerGives
    <3>. QED  BY <1>1, <1>7, <3>1 DEF Arrives
  <2>3. Starting' = Starting /\ \A q \in Starting : call'[q] = call[q]
    BY <1>2, <1>3, <1>4, <2>1, <2>2
  <2>4. sessions' \subseteq sessions /\ nextSession' = nextSession
    <3>1. CASE AddSession(r)
      <4>1. Answer(r)
        BY <1>7, <3>1
      <4>2. call'[r].at = "done"
        BY <4>1, AnswerGives
      <4>3. CASE call' = [call EXCEPT ![r].at = "start", ![r].made = nextSession]
        <5>1. call'[r] = [call[r] EXCEPT !.at = "start", !.made = nextSession]
          BY <4>3 DEF CallsPart
        <5>2. call[r] \in Calls
          BY DEF CallsPart
        <5>3. call'[r].at = "start"
          BY <5>1, <5>2 DEF Calls
        <5>. QED  BY <4>2, <5>3
      <4>. QED  BY <3>1, <4>3 DEF AddSession
    <3>2. CASE StoreRemove(r)
      BY <3>2 DEF StoreRemove
    <3>3. CASE RollBack(r) \/ RemoveDomain(r)
      BY <3>3 DEF RollBack, RemoveDomain, DropDomain, Elsewhere, store
    <3>. QED  BY <1>1, <3>1, <3>2, <3>3 DEF Frames
  <2>5. engine' \subseteq engine
    <3>1. CASE Evict(r)
      BY <3>1 DEF Evict
    <3>2. CASE EngineRemove(r)
      BY <3>2 DEF EngineRemove
    <3>. QED  BY <1>1, <1>7, <3>1, <3>2 DEF Frames
  <2>. QED  BY <2>3, <2>4, <2>5 DEF SessionsShrink
<1>. QED  BY <1>5, <1>6, <1>7

Run == sessions \cup engine

(* A number found stays good, whatever r does.                             *)
Lasts(i) ==
    /\ \A d : SessionAgrees(Run, Pending, nextSession, i, d) =>
                  SessionAgrees(Run', Pending', nextSession', i, d)
    /\ i \notin Pending /\ (\A s \in engine : s.id # i) => \A s \in engine' : s.id # i
    /\ i < nextSession => i < nextSession'
    /\ i < nextSession /\ (\A s \in sessions : s.id # i) => \A s \in sessions' : s.id # i

LEMMA LibraryIds ==
    ASSUME LibraryTypes
    PROVE  /\ Ids \subseteq Nat /\ nextSession \in Nat
           /\ \A s \in Opened : s.id \in Ids
           /\ \A r \in Starting : call[r].made \in Ids /\ Made(r).id = call[r].made
           /\ Pending \subseteq Ids
<1>1. Ids \subseteq Nat /\ nextSession \in Nat
  BY ApiAssumption DEF LibraryTypes, Ids
<1>2. \A s \in Opened : s.id \in Ids
  BY DEF LibraryTypes, Opened, Objects
<1>3. \A r \in Starting : Made(r).id = call[r].made
  BY DEF Made, Object
<1>4. \A r \in Starting : Made(r) \in Opened
  BY DEF Opened
<1>. QED  BY <1>1, <1>2, <1>3, <1>4 DEF Pending

LEMMA ShrinkKeeps ==
    ASSUME LibraryTypes, SessionNumbers, SessionsShrink
    PROVE  SessionNumbers' /\ \A i \in Ids : Lasts(i)
<1>1. \A q \in Starting' : q \in Starting /\ Made(q)' = Made(q) /\ call'[q].made = call[q].made
  BY DEF SessionsShrink, Made
<1>2. {Made(r) : r \in Starting}' \subseteq {Made(r) : r \in Starting}
  BY <1>1
<1>3. Pending' = Pending
  BY <1>1 DEF Pending, SessionsShrink
<1>4. Opened' \subseteq Opened
  BY <1>2 DEF Opened, SessionsShrink
<1>5. SessionNumbers'
  BY <1>1, <1>4 DEF SessionNumbers, SessionsShrink
<1>6. ASSUME NEW i \in Ids PROVE Lasts(i)
  BY <1>3 DEF Lasts, SessionAgrees, Run, SessionsShrink
<1>. QED  BY <1>5, <1>6

LEMMA AddedKeeps ==
    ASSUME LibraryTypes, SessionNumbers, NEW r \in Requests, SessionAdded(r)
    PROVE  SessionNumbers' /\ \A i \in Ids : Lasts(i)
<1> DEFINE new == Object(nextSession, call[r].domain, r)
<1>1. new.id = nextSession
  BY DEF Object
<1>2. Made(r)' = new
  BY DEF SessionAdded, Made
<1>3. \A q \in Starting : Made(q)' = Made(q) /\ call'[q].made = call[q].made
  BY DEF SessionAdded, Made
<1>4. {Made(q) : q \in Starting}' = {Made(q) : q \in Starting} \cup {new}
  BY <1>2, <1>3 DEF SessionAdded
<1>5. Pending' = Pending \cup {nextSession}
  BY <1>3 DEF Pending, SessionAdded
<1>6. sessions' = sessions \cup {new} /\ engine' = engine
  BY DEF SessionAdded
<1> HIDE DEF new
<1>7. Opened' = Opened \cup {new}
  BY <1>4, <1>6 DEF Opened
<1>8. Ids \subseteq Nat /\ nextSession \in Nat /\ nextSession' = nextSession + 1
      /\ \A s \in Opened : s.id \in Ids
  BY LibraryIds DEF SessionAdded
<1>9. \A i \in Nat : (i < nextSession => i # nextSession /\ i < nextSession')
                     /\ nextSession < nextSession'
  BY <1>8
<1>10. \A s \in Opened : s.id < nextSession /\ s.id # nextSession /\ s.id < nextSession'
  BY <1>8, <1>9 DEF SessionNumbers
<1>11. SessionNumbers'
  <2>1. \A s \in Opened' : s.id < nextSession'
    BY <1>1, <1>7, <1>8, <1>9, <1>10
  <2>2. \A s, t \in Opened' : s.id = t.id => s = t
    BY <1>1, <1>7, <1>10 DEF SessionNumbers
  <2>3. ASSUME NEW q \in Starting', NEW s \in engine' PROVE s.id # call'[q].made
    <3>1. s \in engine /\ s \in Opened
      BY <1>6 DEF Opened
    <3>2. CASE q = r
      BY <1>10, <3>1, <3>2 DEF SessionAdded
    <3>3. CASE q # r
      BY <1>3, <3>1, <3>3 DEF SessionNumbers, SessionAdded
    <3>. QED  BY <3>2, <3>3
  <2>. QED  BY <2>1, <2>2, <2>3 DEF SessionNumbers
<1>12. ASSUME NEW i \in Ids PROVE Lasts(i)
  <2>1. i < nextSession => i # nextSession /\ i < nextSession'
    BY <1>8, <1>9
  <2>. QED  BY <1>1, <1>5, <1>6, <2>1 DEF Lasts, SessionAgrees, Run
<1>. QED  BY <1>11, <1>12

LEMMA StartedKeeps ==
    ASSUME LibraryTypes, SessionNumbers, NEW r \in Requests, SessionStarted(r)
    PROVE  SessionNumbers' /\ \A i \in Ids : Lasts(i)
<1>1. \A q \in Starting' : q \in Starting /\ q # r /\ Made(q)' = Made(q)
                           /\ call'[q].made = call[q].made
  BY DEF SessionStarted, Made
<1>2. r \in Starting /\ Made(r).id = call[r].made /\ call[r].made \in Pending
  BY LibraryIds DEF SessionStarted, Pending
<1>3. {Made(q) : q \in Starting}' \subseteq {Made(q) : q \in Starting}
  BY <1>1
<1>4. Pending' \subseteq Pending
  BY <1>1 DEF Pending
<1> DEFINE new == Made(r)
<1>5. new \in Opened
  BY <1>2 DEF Opened
<1>6. sessions' = sessions /\ engine' = engine \cup {new} /\ nextSession' = nextSession
  BY DEF SessionStarted
<1>7. new.id = call[r].made
  BY <1>2
<1>8. \A q \in Starting' : call'[q].made # call[r].made
  <2>1. ASSUME NEW q \in Starting', call'[q].made = call[r].made PROVE FALSE
    <3>1. q \in Starting /\ q # r /\ call[q].made = call[r].made
      BY <1>1, <2>1
    <3>2. Made(q) \in Opened /\ Made(q).id = call[q].made
      BY <3>1, LibraryIds DEF Opened
    <3>3. Made(q) = Made(r)
      BY <1>5, <1>7, <3>1, <3>2 DEF SessionNumbers
    <3>4. Made(q).by = q /\ Made(r).by = r
      BY DEF Made, Object
    <3>. QED  BY <3>1, <3>3, <3>4
  <2>. QED  BY <2>1
<1> HIDE DEF new
<1>9. Opened' \subseteq Opened
  BY <1>3, <1>5, <1>6 DEF Opened
<1>10. SessionNumbers'
  <2>1. \A s \in Opened' : s.id < nextSession'
    BY <1>6, <1>9 DEF SessionNumbers
  <2>2. \A s, t \in Opened' : s.id = t.id => s = t
    BY <1>9 DEF SessionNumbers
  <2>3. \A q \in Starting', s \in engine' : s.id # call'[q].made
    BY <1>1, <1>6, <1>7, <1>8 DEF SessionNumbers
  <2>. QED  BY <2>1, <2>2, <2>3 DEF SessionNumbers
<1>11. ASSUME NEW i \in Ids PROVE Lasts(i)
  BY <1>2, <1>4, <1>6, <1>7 DEF Lasts, SessionAgrees, Run
<1>. QED  BY <1>10, <1>11

LEMMA SessionStep ==
    ASSUME CallsPart, LibraryTypes, SessionNumbers, NEW r \in Requests, Moves(r), Handle(r)
    PROVE  SessionNumbers' /\ \A i \in Ids : Lasts(i)
BY SessionEffect, ShrinkKeeps, AddedKeeps, StartedKeeps

LEMMA FoundSession ==
    ASSUME SessionNumbers, NEW r \in Requests, NEW i \in Ids, InDomain(engine, i, r)
    PROVE  SessionAgrees(Run, Pending, nextSession, i, call[r].domain)
<1>1. PICK o \in engine : o.id = i /\ o.domain = call[r].domain
  BY DEF InDomain
<1>2. \A s \in Run : s \in Opened
  BY DEF Run, Opened
<1>3. i < nextSession /\ \A s \in Run : s.id = i => s.domain = call[r].domain
  BY <1>1, <1>2 DEF SessionNumbers, Run
<1>4. i \notin Pending
  BY <1>1 DEF SessionNumbers, Pending
<1>. QED  BY <1>3, <1>4 DEF SessionAgrees

LEMMA EvictGives ==
    ASSUME CallsPart, NEW r \in Requests, Evict(r)
    PROVE  /\ call'[r].at = "evict" =>
                \E i \in call[r].left : /\ call'[r].left = call[r].left \ {i}
                                        /\ engine' = {s \in engine : s.id # i}
           /\ call'[r].at # "evict" => /\ call[r].left = {} /\ engine' = engine
                                       /\ call'[r].at = "listUsers"
<1>1. call[r] \in Calls /\ call[r].at = "evict"
  BY DEF CallsPart, Evict
<1>2. CASE call[r].left = {} /\ Goto(r, "listUsers") /\ engine' = engine
  BY <1>2, GotoGives DEF Stages, Continues
<1>3. CASE \E i \in call[r].left : /\ engine' = {s \in engine : s.id # i}
                                   /\ call' = [call EXCEPT ![r].left = @ \ {i}]
  <2>1. PICK i \in call[r].left : /\ engine' = {s \in engine : s.id # i}
                                  /\ call' = [call EXCEPT ![r].left = @ \ {i}]
    BY <1>3
  <2>2. call'[r] = [call[r] EXCEPT !.left = @ \ {i}]
    BY <2>1 DEF CallsPart
  <2>3. call'[r].at = "evict" /\ call'[r].left = call[r].left \ {i}
    BY <1>1, <2>2 DEF Calls
  <2>. QED  BY <2>1, <2>3
<1>. QED  BY <1>2, <1>3 DEF Evict

LEMMA RemovalGives ==
    ASSUME CallsPart, NEW r \in Requests, RemoveDomain(r), ~Answer(r)
    PROVE  /\ DropDomain(req[r].domain) /\ unsaved' = unsaved
           /\ call'[r].at = "evict"
           /\ call'[r].left = {s.id : s \in sessions \ Elsewhere(sessions, req[r].domain)}
<1> DEFINE ids == {s.id : s \in sessions \ Elsewhere(sessions, req[r].domain)}
<1>1. /\ DropDomain(req[r].domain) /\ unsaved' = unsaved
      /\ call' = [call EXCEPT ![r].at = "evict", ![r].left = ids]
  BY DEF RemoveDomain
<1> HIDE DEF ids
<1>2. call'[r] = [call[r] EXCEPT !.at = "evict", !.left = ids] /\ call[r] \in Calls
  BY <1>1 DEF CallsPart
<1>3. call'[r].at = "evict" /\ call'[r].left = ids
  BY <1>2 DEF Calls
<1>. QED  BY <1>1, <1>3 DEF ids

(* The sessions that r found, or took, itself.                             *)
LEMMA SessionsOwn ==
    ASSUME CallsPart, LibraryTypes, SessionNumbers, NEW r \in Requests, Moves(r), Handle(r),
           SessionsFound(call[r], req[r], sessions, engine, Pending, nextSession)
    PROVE  SessionsFound(call'[r], req[r], sessions', engine', Pending', nextSession')
<1>1. Arrives(r)
  BY Arriving
<1>2. req[r].id \in Ids /\ call[r].left \subseteq Ids
  BY DEF CallsPart, Asks, Calls
<1> DEFINE to == call'[r].at
           d == call'[r].domain
           Agreed == SessionAgrees(Run, Pending, nextSession, req[r].id, call[r].domain)
<1>3. Lasts(req[r].id) /\ \A i \in Ids : Lasts(i)
  BY <1>2, SessionStep
<1>4. to \in {"engineRemove", "storeRemove", "readNotes", "writeNotes"} =>
         SessionAgrees(sessions' \cup engine', Pending', nextSession', req[r].id, d)
  <2> SUFFICES ASSUME to \in {"engineRemove", "storeRemove", "readNotes", "writeNotes"}
               PROVE  SessionAgrees(Run', Pending', nextSession', req[r].id, d)
    BY DEF Run
  <2>1. d = call[r].domain /\ (Find(r) \/ ReadNotes(r) \/ EngineRemove(r))
    BY <1>1 DEF Arrives, Continues
  <2>2. to # "done"
    OBVIOUS
  <2>3. CASE Find(r)
    <3>1. InDomain(engine, req[r].id, r)
      BY <2>2, <2>3, AnswerGives DEF Find
    <3>. QED  BY <1>2, <1>3, <2>1, <3>1, FoundSession DEF Lasts
  <2>4. CASE ReadNotes(r) \/ EngineRemove(r)
    <3>1. Agreed
      BY <2>4 DEF SessionsFound, ReadNotes, EngineRemove, Run
    <3>. QED  BY <1>3, <2>1, <3>1 DEF Lasts
  <2>. QED  BY <2>1, <2>3, <2>4
<1>5. to = "storeRemove" => \A s \in engine' : s.id # req[r].id
  BY <1>1 DEF Arrives, EngineRemove
<1>6. ASSUME to = "evict", NEW i \in call'[r].left
      PROVE  i < nextSession' /\ \A s \in sessions' : s.id # i
  <2>1. ~Answer(r)
    BY <1>6, AnswerGives
  <2>2. CASE RemoveDomain(r)
    <3>1. /\ call'[r].left = {s.id : s \in sessions \ Elsewhere(sessions, req[r].domain)}
          /\ sessions' = Elsewhere(sessions, req[r].domain) /\ nextSession' = nextSession
      BY <2>1, <2>2, RemovalGives DEF DropDomain
    <3>2. PICK s \in sessions : s \notin Elsewhere(sessions, req[r].domain) /\ i = s.id
      BY <1>6, <3>1
    <3>3. sessions \subseteq Opened
      BY DEF Opened
    <3>4. \A t \in sessions' : t \in sessions /\ t # s
      BY <3>1, <3>2 DEF Elsewhere
    <3>. QED  BY <3>1, <3>2, <3>3, <3>4 DEF SessionNumbers
  <2>3. CASE Evict(r)
    <3>1. i \in call[r].left /\ call[r].at = "evict"
      BY <1>6, <2>3, EvictGives DEF Evict
    <3>2. i < nextSession /\ \A s \in sessions : s.id # i
      BY <3>1 DEF SessionsFound
    <3>. QED  BY <1>2, <1>3, <3>1, <3>2 DEF Lasts
  <2>. QED  BY <1>1, <1>6, <2>2, <2>3 DEF Arrives
<1>. QED  BY <1>4, <1>5, <1>6 DEF SessionsFound

LEMMA SessionsOthers ==
    ASSUME CallsPart, LibraryTypes, SessionNumbers, NEW r \in Requests, Moves(r), Handle(r),
           NEW q \in Requests,
           SessionsFound(call[q], req[q], sessions, engine, Pending, nextSession)
    PROVE  SessionsFound(call[q], req[q], sessions', engine', Pending', nextSession')
<1>1. req[q].id \in Ids /\ call[q].left \subseteq Ids
  BY DEF CallsPart, Asks, Calls
<1>2. Lasts(req[q].id) /\ \A i \in Ids : Lasts(i)
  BY <1>1, SessionStep
<1>3. call[q].at \in {"engineRemove", "storeRemove", "readNotes", "writeNotes"} =>
          SessionAgrees(sessions' \cup engine', Pending', nextSession', req[q].id, call[q].domain)
  BY <1>2 DEF SessionsFound, Lasts, Run
<1>4. call[q].at = "storeRemove" => \A s \in engine' : s.id # req[q].id
  BY <1>2 DEF SessionsFound, Lasts, SessionAgrees
<1>5. call[q].at = "evict" =>
          \A i \in call[q].left : i < nextSession' /\ \A s \in sessions' : s.id # i
  BY <1>1, <1>2 DEF SessionsFound, Lasts
<1>. QED  BY <1>3, <1>4, <1>5 DEF SessionsFound

(* Past the account, a handler knows its domain.                           *)
LEMMA Placed ==
    ASSUME CallsPart, StagesPart, NEW r \in Requests,
           call[r].at \in {"pcapsPost", "addSession", "sessionsPost", "start"}
    PROVE  call[r].domain \in Domains
<1>1. CallFits(call[r], req[r]) /\ StageFits(call[r], req[r])
  BY DEF CallsPart, StagesPart
<1>2. {"pcapsPost", "sessionsPost"} \subseteq Ops
  BY DEF Ops
<1>3. req[r].op \notin {"register", "login"}
  BY <1>1, <1>2 DEF StageFits
<1>. QED  BY <1>1, <1>3 DEF CallFits

LEMMA NotesTyped ==
    ASSUME LibraryTypes, CallsPart, NEW r \in Requests, Handle(r)
    PROVE  notes' \in [Ids -> Requests \cup {Seed, Gone}]
<1>1. notes \in [Ids -> Requests \cup {Seed, Gone}]
  BY DEF LibraryTypes
<1>2. CASE AddSession(r)
  BY <1>1, <1>2 DEF AddSession
<1>3. CASE StoreRemove(r)
  BY <1>1, <1>3 DEF StoreRemove
<1>4. CASE WriteNotes(r)
  BY <1>1, <1>4 DEF WriteNotes
<1>5. CASE RollBack(r) \/ RemoveDomain(r)
  <2>1. notes' = notes \/ DropDomain(req[r].domain)
    BY <1>5 DEF RollBack, RemoveDomain
  <2>2. CASE DropDomain(req[r].domain)
    BY <1>1, <2>2 DEF DropDomain
  <2>. QED  BY <1>1, <2>1, <2>2
<1>6. Frames(r)
  BY Framing
<1>. QED  BY <1>1, <1>2, <1>3, <1>4, <1>5, <1>6 DEF Frames

LEMMA TypesStep ==
    ASSUME CallsPart, StagesPart, LibraryTypes, NEW r \in Requests, Moves(r), Handle(r)
    PROVE  LibraryTypes'
<1>1. notes' \in [Ids -> Requests \cup {Seed, Gone}]
  BY NotesTyped
<1>2. pcaps' \subseteq Objects /\ nextPcap' \in 1 .. MaxIds + 1
  <2>1. CASE pcaps' \subseteq pcaps /\ nextPcap' = nextPcap
    BY <2>1 DEF LibraryTypes
  <2>2. CASE /\ nextPcap \in Ids /\ nextPcap' = nextPcap + 1
             /\ pcaps' = pcaps \cup {Object(nextPcap, call[r].domain, r)}
             /\ AddPcap(r)
    <3>1. call[r].domain \in Domains
      BY <2>2, Placed DEF AddPcap
    <3>2. Object(nextPcap, call[r].domain, r) \in Objects
      BY <2>2, <3>1 DEF Object, Objects
    <3>3. nextPcap' \in 1 .. MaxIds + 1
      BY <2>2, ApiAssumption DEF Ids
    <3>4. pcaps' = pcaps \cup {Object(nextPcap, call[r].domain, r)} /\ pcaps \subseteq Objects
      BY <2>2 DEF LibraryTypes
    <3>. QED  BY <3>2, <3>3, <3>4
  <2>. QED  BY <2>1, <2>2, PcapEffect
<1>3. /\ sessions' \subseteq Objects /\ engine' \subseteq Objects
      /\ nextSession' \in 1 .. MaxIds + 1
      /\ \A q \in Starting' : Made(q)' \in Objects
  <2>1. CASE SessionsShrink
    BY <2>1 DEF SessionsShrink, LibraryTypes, Made
  <2>2. CASE SessionAdded(r)
    <3> DEFINE new == Object(nextSession, call[r].domain, r)
    <3>1. call[r].domain \in Domains
      BY <2>2, Placed DEF SessionAdded, AddSession
    <3>2. new \in Objects
      BY <2>2, <3>1 DEF SessionAdded, Object, Objects
    <3>3. nextSession' \in 1 .. MaxIds + 1
      BY <2>2, ApiAssumption DEF SessionAdded, Ids
    <3>4. Made(r)' = new
      BY <2>2 DEF SessionAdded, Made
    <3>5. \A q \in Starting : Made(q)' = Made(q)
      BY <2>2 DEF SessionAdded, Made
    <3>6. sessions' = sessions \cup {new} /\ engine' = engine /\ Starting' = Starting \cup {r}
      BY <2>2 DEF SessionAdded
    <3> HIDE DEF new
    <3>. QED  BY <3>2, <3>3, <3>4, <3>5, <3>6 DEF LibraryTypes
  <2>3. CASE SessionStarted(r)
    <3>1. Made(r) \in Objects
      BY <2>3 DEF SessionStarted, LibraryTypes
    <3>2. \A q \in Starting' : q \in Starting /\ Made(q)' = Made(q)
      BY <2>3 DEF SessionStarted, Made
    <3>3. sessions' = sessions /\ engine' = engine \cup {Made(r)} /\ nextSession' = nextSession
      BY <2>3 DEF SessionStarted
    <3>. QED  BY <3>1, <3>2, <3>3 DEF LibraryTypes
  <2>. QED  BY <2>1, <2>2, <2>3, SessionEffect
<1>4. crossed' \subseteq Requests
  BY Traces DEF LibraryTypes
<1>. QED  BY <1>1, <1>2, <1>3, <1>4 DEF LibraryTypes

(* What a request removes, copies or writes is of its domain.              *)
LEMMA IsolatedStep ==
    ASSUME AccountsInv, RouteInv, HomePart, LibraryInv, NEW r \in Requests, Turn(r)
    PROVE  Isolated'
<1>1. Handle(r) /\ req' = req /\ met' = met /\ Frames(r)
  BY Framing DEF Turn
<1>2. /\ PcapsFound(call[r], req[r], pcaps, nextPcap)
      /\ SessionsFound(call[r], req[r], sessions, engine, Pending, nextSession)
      /\ StageFits(call[r], req[r])
  BY DEF LibraryInv, RouteInv, StagesPart
<1>3. ASSUME NEW set, Touch(r, set), \A o \in set : o.domain = call[r].domain
      PROVE  crossed' = crossed
  BY <1>3 DEF Touch
<1>4. \/ crossed' = crossed
      \/ /\ crossed' = crossed \cup {r}
         /\ req[r].op = "domainUsersDelete" /\ Shifted(r)
  <2>1. CASE Delete(r)
    <3>1. CASE call[r].at = "delete"
      <4>1. req[r].op = "domainUsersDelete"
        BY <1>2, <3>1 DEF StageFits
      <4>2. users[req[r].name].domain = call[r].domain \/ Shifted(r)
        BY <3>1 DEF HomePart
      <4>3. crossed' = crossed \/ \/ Touch(r, {users[req[r].name]})
                                  \/ Touch(r, {})
        BY <2>1 DEF Delete
      <4>4. crossed' = crossed \/ crossed' = crossed \cup {r}
        BY <4>3 DEF Touch
      <4>5. users[req[r].name].domain = call[r].domain => crossed' = crossed
        BY <4>3 DEF Touch
      <4>. QED  BY <4>1, <4>2, <4>4, <4>5
    <3>2. CASE call[r].at # "delete"
      <4>1. crossed' = crossed \/ Touch(r, {})
        BY <2>1, <3>2 DEF Delete
      <4>. QED  BY <1>3, <4>1
    <3>. QED  BY <3>1, <3>2
  <2>2. CASE RemovePcap(r)
    <3>1. Touch(r, pcaps \ pcaps') /\ pcaps' = {p \in pcaps : p.id # req[r].id}
          /\ call[r].at = "removePcap"
      BY <2>2 DEF RemovePcap
    <3>2. \A o \in pcaps \ pcaps' : o.domain = call[r].domain
      BY <1>2, <3>1 DEF PcapsFound, PcapAgrees
    <3>. QED  BY <1>3, <3>1, <3>2
  <2>3. CASE AddSession(r)
    <3> DEFINE sources == {p \in pcaps : p.id \in req[r].ids}
    <3>1. crossed' = crossed \/ Touch(r, sources)
      BY <2>3 DEF AddSession
    <3>2. call[r].at = "addSession"
      BY <2>3 DEF AddSession
    <3>3. \A o \in sources : o.domain = call[r].domain
      BY <1>2, <3>2 DEF PcapsFound, PcapAgrees
    <3>. QED  BY <1>3, <3>1, <3>3
  <2>4. CASE EngineRemove(r)
    <3>1. Touch(r, engine \ engine') /\ engine' = {s \in engine : s.id # req[r].id}
          /\ call[r].at = "engineRemove"
      BY <2>4 DEF EngineRemove
    <3>2. \A o \in engine \ engine' : o.domain = call[r].domain
      BY <1>2, <3>1 DEF SessionsFound, SessionAgrees
    <3>. QED  BY <1>3, <3>1, <3>2
  <2>5. CASE StoreRemove(r)
    <3>1. Touch(r, sessions \ sessions') /\ sessions' = {s \in sessions : s.id # req[r].id}
          /\ call[r].at = "storeRemove"
      BY <2>5 DEF StoreRemove
    <3>2. \A o \in sessions \ sessions' : o.domain = call[r].domain
      BY <1>2, <3>1 DEF SessionsFound, SessionAgrees
    <3>. QED  BY <1>3, <3>1, <3>2
  <2>6. CASE WriteNotes(r)
    <3> DEFINE set == {s \in sessions : s.id = req[r].id}
    <3>1. crossed' = crossed \/ Touch(r, set)
      BY <2>6 DEF WriteNotes, marks
    <3>2. call[r].at = "writeNotes"
      BY <2>6 DEF WriteNotes
    <3>3. \A o \in set : o.domain = call[r].domain
      BY <1>2, <3>2 DEF SessionsFound, SessionAgrees
    <3>. QED  BY <1>3, <3>1, <3>3
  <2>. QED  BY <1>1, <2>1, <2>2, <2>3, <2>4, <2>5, <2>6 DEF Frames
<1>5. \A q \in crossed' : req'[q].op = "domainUsersDelete" /\ Shifted(q)'
  BY <1>1, <1>4 DEF LibraryInv, Isolated, Shifted
<1>. QED  BY <1>5 DEF Isolated

LEMMA TurnLibrary ==
    ASSUME AccountsInv, RouteInv, HomePart, LibraryInv, NEW r \in Requests, Turn(r)
    PROVE  LibraryInv'
<1>1. Handle(r) /\ req' = req /\ CallsPart
  BY DEF Turn, AccountsInv
<1>2. Moves(r)
  BY <1>1, HandleMoves DEF AccountsInv, AccountsPart
<1>3. \A q \in Requests : q # r => call'[q] = call[q]
  BY <1>1, <1>2, OthersStay
<1>4. LibraryTypes /\ PcapNumbers /\ SessionNumbers
  BY DEF LibraryInv
<1>5. LibraryTypes' /\ PcapNumbers' /\ SessionNumbers' /\ Isolated'
  BY <1>1, <1>2, <1>4, TypesStep, PcapStep, SessionStep, IsolatedStep DEF RouteInv
<1>6. ASSUME NEW q \in Requests PROVE PcapsFound(call'[q], req'[q], pcaps', nextPcap')
  <2>1. PcapsFound(call[q], req[q], pcaps, nextPcap)
    BY DEF LibraryInv
  <2>2. CASE q = r
    BY <1>1, <1>4, <2>1, <2>2, PcapsOwn
  <2>3. CASE q # r
    BY <1>1, <1>3, <1>4, <2>1, <2>3, PcapsOthers
  <2>. QED  BY <2>2, <2>3
<1>7. ASSUME NEW q \in Requests
      PROVE  SessionsFound(call'[q], req'[q], sessions', engine', Pending', nextSession')
  <2>1. SessionsFound(call[q], req[q], sessions, engine, Pending, nextSession)
    BY DEF LibraryInv
  <2>2. CASE q = r
    BY <1>1, <1>2, <1>4, <2>1, <2>2, SessionsOwn
  <2>3. CASE q # r
    BY <1>1, <1>2, <1>3, <1>4, <2>1, <2>3, SessionsOthers
  <2>. QED  BY <2>2, <2>3
<1>. QED  BY <1>5, <1>6, <1>7 DEF LibraryInv

LEMMA BeginLibrary ==
    ASSUME CallsPart, RouteInv, LibraryInv, NEW r \in Requests, Begins(r)
    PROVE  LibraryInv'
<1>1. UNCHANGED <<pcaps, sessions, engine, notes, nextPcap, nextSession, crossed>>
  BY DEF Begins, Begin, world, objects, store, marks
<1>2. /\ \A q \in Requests : q # r => call'[q] = call[q] /\ req'[q] = req[q]
      /\ call[r].at = "new" /\ call'[r].at \in {"register", "login", "check"}
  BY BeginGives
<1>3. Starting' = Starting
  BY <1>2 DEF Starting
<1>4. \A q \in Starting : q \in Requests /\ q # r
  BY <1>2 DEF Starting
<1>5. \A q \in Starting : Made(q)' = Made(q) /\ call'[q].made = call[q].made
  BY <1>2, <1>4 DEF Made
<1>6. Pending' = Pending /\ {Made(q) : q \in Starting}' = {Made(q) : q \in Starting}
  BY <1>3, <1>5 DEF Pending
<1>7. Opened' = Opened
  BY <1>1, <1>6 DEF Opened
<1>8. LibraryTypes'
  BY <1>1, <1>3, <1>5 DEF LibraryInv, LibraryTypes
<1>9. PcapNumbers'
  BY <1>1 DEF LibraryInv, PcapNumbers
<1>10. SessionNumbers'
  BY <1>1, <1>3, <1>5, <1>7 DEF LibraryInv, SessionNumbers
<1>11. ASSUME NEW q \in Requests PROVE PcapsFound(call'[q], req'[q], pcaps', nextPcap')
  BY <1>1, <1>2 DEF LibraryInv, PcapsFound
<1>12. ASSUME NEW q \in Requests
       PROVE  SessionsFound(call'[q], req'[q], sessions', engine', Pending', nextSession')
  BY <1>1, <1>2, <1>6 DEF LibraryInv, SessionsFound
<1>13. ASSUME NEW q \in crossed' PROVE req'[q].op = "domainUsersDelete" /\ Shifted(q)'
  <2>1. q \in crossed /\ Shifted(q) /\ req[q].op = "domainUsersDelete"
    BY <1>1, <1>13 DEF LibraryInv, Isolated
  <2>2. PICK p \in Requests : {p, q} \in met
    BY <2>1 DEF Shifted
  <2>3. q # r
    BY <1>2, <2>1 DEF RouteInv, StartedPart
  <2>4. q \in Requests => req'[q] = req[q]
    BY <1>2, <2>3
  <2>5. q \in Requests
    BY <1>1, <1>13 DEF LibraryInv, LibraryTypes
  <2>. QED  BY <2>1, <2>4, <2>5, ShiftedStays, BeginGrows DEF RouteInv
<1>14. Isolated'
  BY <1>13 DEF Isolated
<1>. QED  BY <1>8, <1>9, <1>10, <1>11, <1>12, <1>14 DEF LibraryInv

LEMMA CrashLibrary ==
    ASSUME CallsPart, RouteInv, LibraryInv, Crash
    PROVE  LibraryInv'
<1>1. /\ UNCHANGED <<req, met, pcaps, sessions, notes, nextPcap, nextSession, crossed>>
      /\ engine' = sessions
  BY DEF Crash, store, marks
<1>2. \A q \in Requests : call'[q].at \in {"new", "done"}
  BY CrashGives DEF InProgress
<1>3. Starting' = {}
  BY <1>2 DEF Starting
<1>4. LibraryTypes'
  BY <1>1, <1>3 DEF LibraryInv, LibraryTypes
<1>5. PcapNumbers'
  BY <1>1 DEF LibraryInv, PcapNumbers
<1>6. Opened' \subseteq Opened
  BY <1>1, <1>3 DEF Opened
<1>7. SessionNumbers'
  BY <1>1, <1>3, <1>6 DEF LibraryInv, SessionNumbers
<1>8. \A q \in Requests : PcapsFound(call'[q], req'[q], pcaps', nextPcap')
  BY <1>2 DEF PcapsFound
<1>9. \A q \in Requests :
        SessionsFound(call'[q], req'[q], sessions', engine', Pending', nextSession')
  BY <1>2 DEF SessionsFound
<1>10. Isolated'
  BY <1>1 DEF LibraryInv, Isolated, Shifted
<1>. QED  BY <1>4, <1>5, <1>7, <1>8, <1>9, <1>10 DEF LibraryInv

LEMMA IdleLibrary ==
    ASSUME LibraryInv,
           UNCHANGED <<req, call, met, pcaps, sessions, engine, notes, nextPcap, nextSession,
                       crossed>>
    PROVE  LibraryInv'
<1>1. Starting' = Starting /\ Pending' = Pending
  BY DEF Starting, Pending
<1>2. \A q \in Requests : Made(q)' = Made(q)
  BY DEF Made
<1>3. Starting \subseteq Requests
  BY DEF Starting
<1>4. Opened' = Opened
  BY <1>1, <1>2, <1>3 DEF Opened
<1>5. LibraryTypes' /\ PcapNumbers'
  BY <1>1, <1>2, <1>3 DEF LibraryInv, LibraryTypes, PcapNumbers
<1>6. SessionNumbers'
  BY <1>1, <1>4 DEF LibraryInv, SessionNumbers
<1>7. \A q \in Requests : PcapsFound(call'[q], req'[q], pcaps', nextPcap')
  BY DEF LibraryInv
<1>8. \A q \in Requests :
        SessionsFound(call'[q], req'[q], sessions', engine', Pending', nextSession')
  BY <1>1 DEF LibraryInv
<1>9. Isolated'
  BY DEF LibraryInv, Isolated, Shifted
<1>. QED  BY <1>5, <1>6, <1>7, <1>8, <1>9 DEF LibraryInv

LEMMA LibraryInit ==
    ASSUME Init
    PROVE  LibraryInv
<1>1. /\ deployment \in Deployments
      /\ call = [r \in Requests |-> Idle]
      /\ pcaps = deployment.pcaps
      /\ sessions = deployment.sessions /\ engine = deployment.sessions
      /\ notes = [i \in Ids |-> IF \E s \in sessions : s.id = i THEN Seed ELSE Gone]
      /\ nextPcap = 1 + Cardinality(pcaps) /\ nextSession = 1 + Cardinality(sessions)
      /\ crossed = {}
  BY DEF Init, ApiInit
<1>2. /\ pcaps \subseteq Objects /\ sessions \subseteq Objects
      /\ Numbered(pcaps) /\ Numbered(sessions)
  BY <1>1, ApiAssumption
<1>3. MaxIds \in Nat /\ Ids \subseteq Nat
  BY ApiAssumption DEF Ids
<1>4. ASSUME NEW set \in SUBSET Objects, Numbered(set)
      PROVE  /\ 1 + Cardinality(set) \in 1 .. MaxIds + 1
             /\ \A o \in set : o.id < 1 + Cardinality(set)
             /\ \A o, p \in set : o.id = p.id => o = p
  <2>1. \A o \in set : o.id \in Nat
    BY <1>3 DEF Objects
  <2>2. Cardinality(set) \in 0 .. MaxIds /\ \A o \in set : o.id =< Cardinality(set)
    BY <1>4 DEF Numbered
  <2> DEFINE n == Cardinality(set)
  <2>3. n \in 0 .. MaxIds
    BY <2>2
  <2> HIDE DEF n
  <2>4. 1 + n \in 1 .. MaxIds + 1 /\ \A i \in Nat : i =< n => i < 1 + n
    BY <1>3, <2>3
  <2>5. \A o \in set : o.id =< n
    BY <2>2 DEF n
  <2>6. \A o \in set : o.id < 1 + n
    BY <2>1, <2>4, <2>5
  <2>. QED  BY <1>4, <2>4, <2>6 DEF n, Numbered
<1>5. Idle.at = "new"
  BY DEF Idle
<1>6. \A r \in Requests : call[r].at = "new"
  BY <1>1, <1>5
<1>7. Starting = {}
  BY <1>6 DEF Starting
<1>8. Opened = sessions
  BY <1>1, <1>7 DEF Opened
<1>9. nextPcap \in 1 .. MaxIds + 1 /\ nextSession \in 1 .. MaxIds + 1
      /\ (\A o \in pcaps : o.id < nextPcap) /\ (\A o \in sessions : o.id < nextSession)
  BY <1>1, <1>2, <1>4
<1>10. notes \in [Ids -> Requests \cup {Seed, Gone}]
  BY <1>1
<1>11. LibraryTypes
  BY <1>1, <1>2, <1>7, <1>9, <1>10 DEF LibraryTypes
<1>12. PcapNumbers
  BY <1>2, <1>4, <1>9 DEF PcapNumbers
<1>13. SessionNumbers
  BY <1>2, <1>4, <1>7, <1>8, <1>9 DEF SessionNumbers
<1>14. \A r \in Requests : PcapsFound(call[r], req[r], pcaps, nextPcap)
  BY <1>6 DEF PcapsFound
<1>15. \A r \in Requests :
         SessionsFound(call[r], req[r], sessions, engine, Pending, nextSession)
  BY <1>6 DEF SessionsFound
<1>. QED  BY <1>1, <1>11, <1>12, <1>13, <1>14, <1>15 DEF LibraryInv, Isolated

(***************************************************************************)
(* The store and the engine: what one of them has and the other has not is *)
(* on its way, or its domain was removed meanwhile.                        *)
(***************************************************************************)
RemovalOf(d, b) ==
    \E q \in Requests : Removes(q, d) /\ (q \in unsaved \/ {q, b} \in met)

(* Request q is about to start session s, or to drop it.                   *)
OnItsWay(s) ==
    \E q \in Requests : \/ call[q].at = "start" /\ s = Made(q)
                        \/ call[q].at = "storeRemove" /\ s.id = req[q].id

Evicted(i) == \E q \in Requests : call[q].at = "evict" /\ i \in call[q].left

SessionsPart ==
    /\ \A s \in sessions : s \in engine \/ OnItsWay(s)
    /\ \A s \in engine \ sessions : RemovalOf(s.domain, s.by) \/ Evicted(s.id)
    /\ \A q \in Starting : Made(q) \in sessions \/ RemovalOf(call[q].domain, q)

LEMMA RemovalStays ==
    ASSUME StartedPart, Grown, NEW d, NEW b, RemovalOf(d, b)
    PROVE  RemovalOf(d, b)'
<1>1. PICK q \in Requests : Removes(q, d) /\ (q \in unsaved \/ {q, b} \in met)
  BY DEF RemovalOf
<1>2. req'[q] = req[q]
  BY <1>1 DEF StartedPart, Grown
<1>. QED  BY <1>1, <1>2 DEF RemovalOf, Removes, Grown

LEMMA SessionsGone ==
    ASSUME CallsPart, StagesPart, NEW r \in Requests, Handle(r), NEW s \in sessions, s \notin sessions'
    PROVE  \/ StoreRemove(r) /\ s.id = req[r].id
           \/ /\ RemoveDomain(r) /\ Removes(r, s.domain)
              /\ r \in unsaved' \/ (call'[r].at = "evict" /\ s.id \in call'[r].left)
<1>1. Frames(r) /\ StageFits(call[r], req[r])
  BY Framing DEF StagesPart
<1>2. CASE StoreRemove(r)
  BY <1>2 DEF StoreRemove
<1>3. CASE AddSession(r)
  BY <1>3 DEF AddSession
<1>4. ASSUME DropDomain(req[r].domain) PROVE s.domain = req[r].domain
  BY <1>4 DEF DropDomain, Elsewhere
<1>5. CASE RollBack(r)
  <2>1. DropDomain(req[r].domain) /\ ~Holds(req[r].domain)
    BY <1>5 DEF RollBack, store
  <2>. QED  BY <1>4, <2>1 DEF Holds
<1>6. CASE RemoveDomain(r)
  <2>1. DropDomain(req[r].domain)
    BY <1>6 DEF RemoveDomain, store
  <2>2. Removes(r, s.domain)
    <3>1. call[r].at = "domainsDelete" /\ "domainsDelete" \in Ops
      BY <1>6 DEF RemoveDomain, Ops, AdminOps
    <3>. QED  BY <1>1, <1>4, <2>1, <3>1 DEF StageFits, Removes
  <2>3. r \in unsaved' \/ (call'[r].at = "evict" /\ s.id \in call'[r].left)
    <3>1. CASE Answer(r)
      <4>1. call'[r].at = "done"
        BY <3>1, AnswerGives
      <4>2. ASSUME call' = [call EXCEPT ![r].at = "evict", ![r].left =
                               {t.id : t \in sessions \ Elsewhere(sessions, req[r].domain)}]
            PROVE  FALSE
        <5> DEFINE ids == {t.id : t \in sessions \ Elsewhere(sessions, req[r].domain)}
        <5>1. call' = [call EXCEPT ![r].at = "evict", ![r].left = ids]
          BY <4>2
        <5> HIDE DEF ids
        <5>2. call'[r] = [call[r] EXCEPT !.at = "evict", !.left = ids] /\ call[r] \in Calls
          BY <5>1 DEF CallsPart
        <5>3. call'[r].at = "evict"
          BY <5>2 DEF Calls
        <5>. QED  BY <4>1, <5>3
      <4>3. sessions' # sessions
        OBVIOUS
      <4>. QED  BY <1>6, <4>2, <4>3 DEF RemoveDomain, store
    <3>2. CASE ~Answer(r)
      <4>1. /\ call'[r].at = "evict"
            /\ call'[r].left = {t.id : t \in sessions \ Elsewhere(sessions, req[r].domain)}
            /\ sessions' = Elsewhere(sessions, req[r].domain)
        BY <1>6, <3>2, RemovalGives DEF DropDomain
      <4>. QED  BY <4>1
    <3>. QED  BY <3>1, <3>2
  <2>. QED  BY <1>6, <2>2, <2>3
<1>. QED  BY <1>1, <1>2, <1>3, <1>5, <1>6 DEF Frames

LEMMA EngineGone ==
    ASSUME CallsPart, NEW r \in Requests, Handle(r), NEW s \in engine, s \notin engine'
    PROVE  \/ Evict(r) /\ s.id \in call[r].left
           \/ EngineRemove(r) /\ s.id = req[r].id /\ call'[r].at = "storeRemove"
<1>1. CASE Evict(r)
  BY <1>1 DEF Evict
<1>2. CASE Start(r)
  BY <1>2 DEF Start
<1>3. CASE EngineRemove(r)
  <2>1. s.id = req[r].id
    BY <1>3 DEF EngineRemove
  <2>2. Goto(r, "storeRemove")
    BY <1>3, <2>1 DEF EngineRemove
  <2>. QED  BY <1>3, <2>1, <2>2, GotoGives DEF Stages, Continues
<1>. QED  BY <1>1, <1>2, <1>3, Framing DEF Frames

LEMMA TurnSessions ==
    ASSUME AccountsInv, RouteInv, LibraryInv, SessionsPart, NEW r \in Requests, Turn(r)
    PROVE  SessionsPart'
<1>1. Handle(r) /\ req' = req /\ CallsPart /\ StagesPart /\ StartedPart /\ met' = met
  BY DEF Turn, AccountsInv, RouteInv
<1>2. Moves(r) /\ Grown /\ Departs(r)
  BY <1>1, HandleMoves, TurnGrows, Departing DEF AccountsInv, AccountsPart
<1>3. InProgress(r) /\ \A q \in Requests : q # r => call'[q] = call[q]
  BY <1>1, <1>2, OthersStay
<1>4. /\ SessionsFound(call[r], req[r], sessions, engine, Pending, nextSession)
      /\ LibraryTypes /\ SessionNumbers
  BY DEF LibraryInv
<1>5. SessionsShrink \/ SessionAdded(r) \/ SessionStarted(r)
  BY <1>1, <1>2, SessionEffect
<1>6. \A d : \A b : RemovalOf(d, b) => RemovalOf(d, b)'
  BY <1>1, <1>2, RemovalStays
<1>7. ASSUME NEW s \in sessions' PROVE s \in engine' \/ OnItsWay(s)'
  <2>1. CASE s \notin sessions
    <3>1. SessionAdded(r)
      BY <1>5, <1>7, <2>1 DEF SessionsShrink, SessionStarted
    <3>2. Made(r)' = Object(nextSession, call[r].domain, r)
      BY <3>1 DEF SessionAdded, Made
    <3>3. s = Made(r)' /\ r \in Starting'
      BY <1>7, <2>1, <3>1, <3>2 DEF SessionAdded
    <3>4. call'[r].at = "start"
      BY <3>3 DEF Starting
    <3>. QED  BY <3>3, <3>4 DEF OnItsWay
  <2>2. CASE s \in sessions /\ s \in engine /\ s \notin engine'
    <3>1. CASE Evict(r) /\ s.id \in call[r].left
      <4>1. \A t \in sessions : t.id # s.id
        BY <1>4, <3>1 DEF SessionsFound, Evict
      <4>. QED  BY <2>2, <4>1
    <3>2. CASE EngineRemove(r) /\ s.id = req[r].id /\ call'[r].at = "storeRemove"
      BY <1>1, <3>2 DEF OnItsWay
    <3>. QED  BY <1>1, <2>2, <3>1, <3>2, EngineGone
  <2>3. CASE s \in sessions /\ s \notin engine
    <3>1. PICK q \in Requests : \/ call[q].at = "start" /\ s = Made(q)
                                \/ call[q].at = "storeRemove" /\ s.id = req[q].id
      BY <2>3 DEF SessionsPart, OnItsWay
    <3>2. CASE q # r
      <4>1. call'[q] = call[q] /\ req'[q] = req[q]
        BY <1>1, <1>3, <3>2
      <4>. QED  BY <3>1, <4>1 DEF OnItsWay, Made
    <3>3. CASE q = r /\ call[r].at = "start" /\ s = Made(r)
      BY <1>2, <3>3 DEF Departs, Start, Made
    <3>4. CASE q = r /\ call[r].at = "storeRemove" /\ s.id = req[r].id
      <4>1. s \notin sessions'
        BY <1>2, <3>4 DEF Departs, StoreRemove
      <4>. QED  BY <1>7, <4>1
    <3>. QED  BY <3>1, <3>2, <3>3, <3>4
  <2>. QED  BY <2>1, <2>2, <2>3
<1>8. ASSUME NEW s \in engine', s \notin sessions'
      PROVE  RemovalOf(s.domain, s.by)' \/ Evicted(s.id)'
  <2>1. CASE s \notin engine
    <3>1. SessionStarted(r)
      BY <1>5, <1>8, <2>1 DEF SessionsShrink, SessionAdded
    <3>2. s = Made(r) /\ s \notin sessions /\ r \in Starting
      BY <1>8, <2>1, <3>1 DEF SessionStarted
    <3>3. s.domain = call[r].domain /\ s.by = r
      BY <3>2 DEF Made, Object
    <3>4. RemovalOf(s.domain, s.by)
      BY <3>2, <3>3 DEF SessionsPart
    <3>. QED  BY <1>6, <3>4
  <2>2. CASE s \in engine /\ s \in sessions
    <3>1. CASE StoreRemove(r) /\ s.id = req[r].id
      <4>1. \A t \in engine : t.id # req[r].id
        BY <1>4, <3>1 DEF SessionsFound, StoreRemove
      <4>. QED  BY <2>2, <3>1, <4>1
    <3>2. CASE RemoveDomain(r) /\ Removes(r, s.domain) /\ r \in unsaved'
      <4>1. Removes(r, s.domain)'
        BY <1>1, <3>2 DEF Removes
      <4>. QED  BY <3>2, <4>1 DEF RemovalOf
    <3>3. CASE call'[r].at = "evict" /\ s.id \in call'[r].left
      BY <3>3 DEF Evicted
    <3>. QED  BY <1>1, <1>8, <2>2, <3>1, <3>2, <3>3, SessionsGone
  <2>3. CASE s \in engine /\ s \notin sessions
    <3>1. CASE RemovalOf(s.domain, s.by)
      BY <1>6, <3>1
    <3>2. CASE Evicted(s.id)
      <4>1. PICK q \in Requests : call[q].at = "evict" /\ s.id \in call[q].left
        BY <3>2 DEF Evicted
      <4>2. CASE q # r
        BY <1>3, <4>1, <4>2 DEF Evicted
      <4>3. CASE q = r
        <5>1. Evict(r)
          BY <1>2, <4>1, <4>3 DEF Departs
        <5>2. call'[r].at = "evict"
          BY <1>1, <4>1, <4>3, <5>1, EvictGives
        <5>3. PICK i \in call[r].left : /\ call'[r].left = call[r].left \ {i}
                                        /\ engine' = {t \in engine : t.id # i}
          BY <1>1, <5>1, <5>2, EvictGives
        <5>4. s.id \in call'[r].left
          BY <1>8, <4>1, <4>3, <5>3
        <5>. QED  BY <5>2, <5>4 DEF Evicted
      <4>. QED  BY <4>1, <4>2, <4>3
    <3>. QED  BY <2>3, <3>1, <3>2 DEF SessionsPart
  <2>. QED  BY <2>1, <2>2, <2>3
<1>9. ASSUME NEW q \in Starting' PROVE Made(q)' \in sessions' \/ RemovalOf(call[q].domain, q)'
  <2>1. CASE SessionAdded(r) /\ q = r
    BY <2>1 DEF SessionAdded, Made
  <2>2. CASE q \in Starting /\ call'[q] = call[q]
    <3>1. Made(q)' = Made(q)
      BY <2>2 DEF Made
    <3>0. RemovalOf(call[q].domain, q) => RemovalOf(call[q].domain, q)'
      <4>1. PICK d : d = call[q].domain
        OBVIOUS
      <4>2. call'[q].domain = d
        BY <2>2, <4>1
      <4>3. RemovalOf(d, q) => RemovalOf(d, q)'
        BY <1>6
      <4>. QED  BY <4>1, <4>2, <4>3 DEF RemovalOf
    <3>2. CASE Made(q) \in sessions /\ Made(q) \notin sessions'
      <4> DEFINE s == Made(q)
      <4>1. s.id = call[q].made /\ s.domain = call[q].domain /\ s.id \in Pending
        BY <2>2 DEF Made, Object, Pending
      <4> HIDE DEF s
      <4>2. CASE StoreRemove(r) /\ s.id = req[r].id
        <5>1. req[r].id \notin Pending
          BY <1>4, <4>2 DEF SessionsFound, SessionAgrees, StoreRemove
        <5>. QED  BY <4>1, <4>2, <5>1
      <4>3. CASE RemoveDomain(r) /\ Removes(r, s.domain)
        <5>1. r # q /\ InProgress(q) /\ q \in Requests
          BY <1>3, <2>2, <4>3 DEF RemoveDomain, Starting, InProgress
        <5>2. {r, q} \in met
          BY <1>1, <1>3, <5>1 DEF CallsPart, Met
        <5>3. RemovalOf(call[q].domain, q)
          BY <4>1, <4>3, <5>1, <5>2 DEF RemovalOf
        <5>. QED  BY <3>0, <5>3
      <4>. QED  BY <1>1, <3>2, <4>2, <4>3, SessionsGone DEF s
    <3>3. CASE Made(q) \notin sessions
      <4>1. RemovalOf(call[q].domain, q)
        BY <2>2, <3>3 DEF SessionsPart
      <4>. QED  BY <3>0, <4>1
    <3>. QED  BY <3>1, <3>2, <3>3
  <2>3. (SessionAdded(r) /\ q = r) \/ (q \in Starting /\ call'[q] = call[q])
    BY <1>5, <1>9 DEF SessionsShrink, SessionAdded, SessionStarted
  <2>. QED  BY <2>1, <2>2, <2>3
<1>. QED  BY <1>7, <1>8, <1>9 DEF SessionsPart

LEMMA BeginSessions ==
    ASSUME CallsPart, RouteInv, SessionsPart, NEW r \in Requests, Begins(r)
    PROVE  SessionsPart'
<1>1. sessions' = sessions /\ engine' = engine /\ StartedPart /\ Grown
  BY BeginGrows DEF Begins, Begin, world, objects, store, RouteInv
<1>2. /\ \A q \in Requests : q # r => call'[q] = call[q] /\ req'[q] = req[q]
      /\ call[r].at = "new" /\ call'[r].at \notin {"start", "storeRemove", "evict"}
  BY BeginGives
<1>3. \A d : \A b : RemovalOf(d, b) => RemovalOf(d, b)'
  BY <1>1, RemovalStays
<1>4. ASSUME NEW s, OnItsWay(s) PROVE OnItsWay(s)'
  <2>1. PICK q \in Requests : \/ call[q].at = "start" /\ s = Made(q)
                              \/ call[q].at = "storeRemove" /\ s.id = req[q].id
    BY <1>4 DEF OnItsWay
  <2>2. call'[q] = call[q] /\ req'[q] = req[q]
    BY <1>2, <2>1
  <2>. QED  BY <2>1, <2>2 DEF OnItsWay, Made
<1>5. ASSUME NEW i, Evicted(i) PROVE Evicted(i)'
  BY <1>2, <1>5 DEF Evicted
<1>6. ASSUME NEW q \in Starting' PROVE Made(q)' \in sessions' \/ RemovalOf(call[q].domain, q)'
  <2>1. q \in Starting /\ call'[q] = call[q]
    BY <1>2 DEF Starting
  <2>2. PICK d : d = call[q].domain
    OBVIOUS
  <2>3. Made(q) \in sessions \/ RemovalOf(d, q)
    BY <2>1, <2>2 DEF SessionsPart
  <2>4. CASE Made(q) \in sessions
    BY <1>1, <2>1, <2>4 DEF Made
  <2>5. CASE RemovalOf(d, q)
    <3>1. call'[q].domain = d /\ RemovalOf(d, q)'
      BY <1>3, <2>1, <2>2, <2>5
    <3>. QED  BY <3>1 DEF RemovalOf
  <2>. QED  BY <2>3, <2>4, <2>5
<1>. QED  BY <1>1, <1>3, <1>4, <1>5, <1>6 DEF SessionsPart

LEMMA CrashSessions ==
    ASSUME CallsPart, Crash
    PROVE  SessionsPart'
<1>1. sessions' = sessions /\ engine' = sessions
  BY DEF Crash, store
<1>2. \A q \in Requests : call'[q].at # "start"
  BY CrashGives DEF InProgress
<1>. QED  BY <1>1, <1>2 DEF SessionsPart, Starting

LEMMA IdleSessions ==
    ASSUME SessionsPart, UNCHANGED <<req, call, met, unsaved, sessions, engine>>
    PROVE  SessionsPart'
<1>1. Starting' = Starting /\ Starting \subseteq Requests
  BY DEF Starting
<1>. QED  BY <1>1 DEF SessionsPart, OnItsWay, Evicted, RemovalOf, Removes, Made

LEMMA SessionsInit ==
    ASSUME Init
    PROVE  SessionsPart
<1>1. call = [r \in Requests |-> Idle] /\ engine = sessions
  BY DEF Init, ApiInit
<1>2. Idle.at = "new"
  BY DEF Idle
<1>3. Starting = {}
  BY <1>1, <1>2 DEF Starting
<1>. QED  BY <1>1, <1>3 DEF SessionsPart

(***************************************************************************)
(* Notes.                                                                  *)
(***************************************************************************)
(* A writer who compared the notes with the text its edit is based on      *)
(* still finds that text, no notes, or those of a request that overlapped. *)
NotesPart ==
    /\ \A r \in Requests : call[r].at = "writeNotes" /\ ~req[r].force =>
         \/ notes[req[r].id] \in {call[r].base, Gone}
         \/ {notes[req[r].id], r} \in met
    /\ NotesSeen

LEMMA NotesEffect ==
    ASSUME CallsPart, LibraryInv, NEW r \in Requests, Handle(r), NEW i \in Ids, i < nextSession
    PROVE  notes'[i] = notes[i] \/ notes'[i] = Gone \/ (WriteNotes(r) /\ notes'[i] = r)
<1>1. /\ notes \in [Ids -> Requests \cup {Seed, Gone}]
      /\ Ids \subseteq Nat /\ nextSession \in Nat
  BY ApiAssumption DEF LibraryInv, LibraryTypes, Ids
<1>2. CASE AddSession(r)
  <2>1. i # nextSession
    BY <1>1
  <2>. QED  BY <1>1, <1>2, <2>1 DEF AddSession
<1>3. CASE StoreRemove(r)
  BY <1>1, <1>3 DEF StoreRemove
<1>4. CASE WriteNotes(r)
  BY <1>1, <1>4 DEF WriteNotes
<1>5. CASE RollBack(r) \/ RemoveDomain(r)
  BY <1>5 DEF RollBack, RemoveDomain, DropDomain
<1>. QED  BY <1>2, <1>3, <1>4, <1>5, Framing DEF Frames

LEMMA TurnNotes ==
    ASSUME AccountsInv, LibraryInv, NotesPart, NEW r \in Requests, Turn(r)
    PROVE  NotesPart'
<1>1. Handle(r) /\ req' = req /\ met' = met /\ CallsPart
  BY DEF Turn, AccountsInv
<1>2. Moves(r)
  BY <1>1, HandleMoves DEF AccountsInv, AccountsPart
<1>3. InProgress(r) /\ \A q \in Requests : q # r => call'[q] = call[q]
  BY <1>1, <1>2, OthersStay
<1>4. ASSUME NEW q \in Requests, call'[q].at = "writeNotes", ~req[q].force
      PROVE  \/ notes'[req[q].id] \in {call'[q].base, Gone}
             \/ {notes'[req[q].id], q} \in met
  <2>1. CASE q = r
    <3>1. ReadNotes(r) \/ Find(r)
      BY <1>1, <1>4, <2>1, Arriving DEF Arrives
    <3>2. Continues(r, "writeNotes")
      BY <1>1, <1>4, <2>1, Arriving DEF Arrives
    <3>3. CASE ReadNotes(r)
      <4>1. ~Answer(r)
        BY <1>1, <1>4, <2>1, AnswerGives
      <4>2. notes[req[r].id] = call[r].base /\ notes' = notes
        BY <3>3, <4>1 DEF ReadNotes, world, objects
      <4>. QED  BY <2>1, <3>2, <4>2 DEF Continues
    <3>4. CASE Find(r)
      <4>1. ~Answer(r)
        BY <1>1, <1>4, <2>1, AnswerGives
      <4>2. Goto(r, "engineRemove") \/ Goto(r, "readNotes")
        BY <1>4, <2>1, <3>4, <4>1 DEF Find
      <4>3. call'[r].at \in {"engineRemove", "readNotes"}
        BY <1>1, <4>2, GotoGives DEF Continues, Stages
      <4>. QED  BY <1>4, <2>1, <4>3
    <3>. QED  BY <3>1, <3>3, <3>4
  <2>2. CASE q # r
    <3>1. call'[q] = call[q] /\ call[q].at = "writeNotes" /\ req[q].id \in Ids
      BY <1>1, <1>3, <1>4, <2>2 DEF CallsPart, Asks
    <3>2. req[q].id < nextSession
      BY <3>1 DEF LibraryInv, SessionsFound, SessionAgrees
    <3>3. \/ notes[req[q].id] \in {call[q].base, Gone}
          \/ {notes[req[q].id], q} \in met
      BY <1>4, <3>1 DEF NotesPart
    <3>4. {r, q} \in met
      BY <1>1, <1>3, <2>2, <3>1 DEF CallsPart, Met, InProgress
    <3>5. \/ notes'[req[q].id] = notes[req[q].id] \/ notes'[req[q].id] = Gone
          \/ notes'[req[q].id] = r
      BY <1>1, <3>1, <3>2, NotesEffect
    <3>. QED  BY <3>1, <3>3, <3>4, <3>5
  <2>. QED  BY <2>1, <2>2
<1>5. ASSUME NEW pair \in overwrote' PROVE {pair[1], pair[2]} \in met
  <2>1. CASE pair \in overwrote
    BY <2>1 DEF NotesPart, NotesSeen
  <2>2. CASE pair \notin overwrote
    <3>1. WriteNotes(r)
      BY <1>1, <1>5, <2>2, Framing DEF Frames
    <3> DEFINE current == notes[req[r].id]
    <3>2. /\ current # Gone /\ ~req[r].force /\ current # call[r].base
          /\ pair = <<current, r>> /\ call[r].at = "writeNotes"
      BY <1>5, <2>2, <3>1 DEF WriteNotes, marks
    <3>3. {current, r} \in met
      BY <3>2 DEF NotesPart
    <3>. QED  BY <3>2, <3>3
  <2>. QED  BY <2>1, <2>2
<1>6. NotesSeen'
  BY <1>1, <1>5 DEF NotesSeen
<1>. QED  BY <1>1, <1>4, <1>6 DEF NotesPart

LEMMA BeginNotes ==
    ASSUME CallsPart, NotesPart, NEW r \in Requests, Begins(r)
    PROVE  NotesPart'
<1>1. notes' = notes /\ overwrote' = overwrote /\ met \subseteq met'
  BY BeginGrows DEF Begins, Begin, world, objects, marks, Grown
<1>2. /\ \A q \in Requests : q # r => call'[q] = call[q] /\ req'[q] = req[q]
      /\ call'[r].at # "writeNotes"
  BY BeginGives
<1>3. ASSUME NEW q \in Requests, call'[q].at = "writeNotes", ~req'[q].force
      PROVE  \/ notes'[req'[q].id] \in {call'[q].base, Gone}
             \/ {notes'[req'[q].id], q} \in met'
  <2>1. call'[q] = call[q] /\ req'[q] = req[q]
    BY <1>2, <1>3
  <2>2. \/ notes[req[q].id] \in {call[q].base, Gone}
        \/ {notes[req[q].id], q} \in met
    BY <1>3, <2>1 DEF NotesPart
  <2>. QED  BY <1>1, <2>1, <2>2
<1>4. NotesSeen'
  BY <1>1 DEF NotesPart, NotesSeen
<1>. QED  BY <1>3, <1>4 DEF NotesPart

LEMMA CrashNotes ==
    ASSUME CallsPart, NotesPart, Crash
    PROVE  NotesPart'
<1>1. overwrote' = overwrote /\ met' = met
  BY DEF Crash, marks
<1>2. \A q \in Requests : call'[q].at # "writeNotes"
  BY CrashGives DEF InProgress
<1>. QED  BY <1>1, <1>2 DEF NotesPart, NotesSeen

LEMMA IdleNotes ==
    ASSUME NotesPart, UNCHANGED <<req, call, met, notes, overwrote>>
    PROVE  NotesPart'
BY DEF NotesPart, NotesSeen

LEMMA NotesInit ==
    ASSUME Init
    PROVE  NotesPart
<1>1. call = [r \in Requests |-> Idle] /\ overwrote = {}
  BY DEF Init, ApiInit
<1>2. Idle.at = "new"
  BY DEF Idle
<1>. QED  BY <1>1, <1>2 DEF NotesPart, NotesSeen

(***************************************************************************)
(* Domains: what is in one, or about to be put there, keeps it standing,   *)
(* unless its removal overlapped another request or left something behind. *)
(***************************************************************************)
Stands(d) == Exists(domains, d) \/ Raced(d)

(* A removal of the domain that n is in has yet to move n out of it.       *)
Leaving(n) ==
    \E q \in Requests :
        /\ Removes(q, users[n].domain)
        /\ \/ call[q].at \in {"evict", "listUsers"}
           \/ call[q].at = "moveUsers" /\ n \in call[q].move

ObjectsStand == \A o \in pcaps \cup sessions : Stands(o.domain)

UsersStand ==
    \A n \in Names : users[n] # Absent => Stands(users[n].domain) \/ Leaving(n)

Uploads == {"pcapsPost", "sessionsPost", "domainUsersPost"}

(* The domain that a request is about to use.                              *)
UseStands(r) ==
    /\ req[r].op \in Uploads =>
         call[r].at \in {"new", "done", "check", "info"} \/ Stands(call[r].domain)
    /\ call[r].at = "create" /\ req[r].op = "adminUsersPost" => Stands(req[r].domain)
    /\ call[r].at \in {"nameOwner", "rollBack"} =>
         /\ Stands(req[r].domain)
         /\ \A n \in Names : users[n].domain = req[r].domain => Raced(req[r].domain)

DomainsPart == ObjectsStand /\ UsersStand /\ \A r \in Requests : UseStands(r)

LEMMA RacedStays ==
    ASSUME StartedPart, Grown, NEW d, Raced(d)
    PROVE  Raced(d)'
<1>1. CASE d \in torn
  BY <1>1 DEF Raced, Grown
<1>2. CASE d \notin torn
  <2>1. PICK q \in Requests :
           Removes(q, d) /\ (q \in unsaved \/ \E r \in Requests : {q, r} \in met)
    BY <1>2 DEF Raced
  <2>2. req'[q] = req[q]
    BY <2>1 DEF StartedPart, Grown
  <2>. QED  BY <2>1, <2>2 DEF Raced, Removes, Grown
<1>. QED  BY <1>1, <1>2

(* Two requests in progress, of which one removes the domain.              *)
LEMMA MeetingRaces ==
    ASSUME CallsPart, NEW q \in Requests, NEW r \in Requests, q # r, InProgress(q), InProgress(r),
           NEW d, Removes(q, d)
    PROVE  Raced(d)
BY DEF CallsPart, Met, Raced

LEMMA LeavingRemoves ==
    ASSUME NEW n \in Names, Leaving(n)
    PROVE  \E q \in Requests : /\ Removes(q, users[n].domain) /\ InProgress(q)
                               /\ call[q].at \in {"evict", "listUsers", "moveUsers"}
BY DEF Leaving, InProgress

LEMMA StandsStays ==
    ASSUME CallsPart, RouteInv, NEW r \in Requests, Turn(r), NEW d, Stands(d)
    PROVE  Stands(d)' \/ (d = req[r].domain /\ (RollBack(r) \/ RemoveDomain(r)))
<1>1. CASE Raced(d)
  BY <1>1, RacedStays, TurnGrows DEF Stands, RouteInv
<1>2. CASE Exists(domains, d)
  <2>1. CASE domains \subseteq domains'
    BY <1>2, <2>1 DEF Exists, Stands
  <2>2. CASE RollBack(r) \/ RemoveDomain(r)
    <3>1. UNCHANGED domains \/ DropDomain(req[r].domain)
      BY <2>2 DEF RollBack, RemoveDomain, store
    <3>2. CASE DropDomain(req[r].domain) /\ d # req[r].domain
      BY <1>2, <3>2 DEF DropDomain, Exists, Stands
    <3>3. CASE UNCHANGED domains
      BY <1>2, <3>3 DEF Exists, Stands
    <3>. QED  BY <2>2, <3>1, <3>2, <3>3
  <2>3. CASE AddDomain(r)
    BY <2>1, <2>3 DEF AddDomain
  <2>. QED  BY <2>1, <2>2, <2>3, Framing DEF Frames, Turn
<1>. QED  BY <1>1, <1>2 DEF Stands

LEMMA RemovalStage ==
    ASSUME StagesPart, NEW r \in Requests
    PROVE  /\ RollBack(r) \/ NameOwner(r) \/ AddDomain(r) => req[r].op = "domainsPost"
           /\ RemoveDomain(r) => req[r].op = "domainsDelete"
<1>1. StageFits(call[r], req[r]) /\ "domainsDelete" \in Ops
  BY DEF StagesPart, Ops, AdminOps
<1>. QED  BY <1>1 DEF StageFits, RollBack, NameOwner, AddDomain, RemoveDomain

(* What a removal takes from under others is known to have been raced.     *)
LEMMA UnderOthers ==
    ASSUME CallsPart, RouteInv, NEW r \in Requests, Turn(r), InProgress(r),
           NEW q \in Requests, q # r, InProgress(q), NEW d, Stands(d)
    PROVE  Stands(d)'
<1>1. CASE d = req[r].domain /\ (RollBack(r) \/ RemoveDomain(r))
  <2>1. Removes(r, d)
    BY <1>1, RemovalStage DEF RouteInv, Removes
  <2>2. Raced(d)
    BY <2>1, MeetingRaces
  <2>. QED  BY <2>2, RacedStays, TurnGrows DEF RouteInv, Stands
<1>. QED  BY <1>1, StandsStays

LEMMA ObjectsStep ==
    ASSUME AccountsInv, RouteInv, DomainsPart, NEW r \in Requests, Turn(r), Moves(r)
    PROVE  ObjectsStand'
<1>1. Handle(r) /\ CallsPart /\ StagesPart /\ UseStands(r) /\ InProgress(r)
  BY DEF Turn, AccountsInv, RouteInv, DomainsPart, Moves
<1>2. ASSUME NEW d, Stands(d), ~(RollBack(r) \/ RemoveDomain(r)) PROVE Stands(d)'
  BY <1>1, <1>2, StandsStays
<1>3. ASSUME NEW o \in pcaps' \cup sessions', o \in pcaps \cup sessions
      PROVE  Stands(o.domain)'
  <2>1. PICK d : d = o.domain
    OBVIOUS
  <2>2. Stands(d)
    BY <1>3, <2>1 DEF DomainsPart, ObjectsStand
  <2>3. CASE d = req[r].domain /\ RollBack(r)
    <3>1. Holds(d)
      BY <1>3, <2>1 DEF Holds
    <3>2. domains' = domains
      BY <2>3, <3>1 DEF RollBack, store
    <3>3. Raced(d) => Raced(d)'
      BY RacedStays, TurnGrows DEF RouteInv
    <3>4. Stands(d)'
      BY <2>2, <3>2, <3>3 DEF Stands
    <3>. QED  BY <2>1, <3>4
  <2>4. CASE d = req[r].domain /\ RemoveDomain(r)
    <3>1. ~DropDomain(d)
      BY <1>3, <2>1 DEF DropDomain, Elsewhere
    <3>2. domains' = domains
      BY <2>4, <3>1 DEF RemoveDomain, store
    <3>3. Raced(d) => Raced(d)'
      BY RacedStays, TurnGrows DEF RouteInv
    <3>4. Stands(d)'
      BY <2>2, <3>2, <3>3 DEF Stands
    <3>. QED  BY <2>1, <3>4
  <2>5. Stands(d)' \/ (d = req[r].domain /\ (RollBack(r) \/ RemoveDomain(r)))
    BY <1>1, <2>2, StandsStays
  <2>. QED  BY <2>1, <2>3, <2>4, <2>5
<1>4. ASSUME NEW o \in pcaps' \cup sessions', o \notin pcaps \cup sessions
      PROVE  Stands(o.domain)'
  <2>1. PICK d : d = call[r].domain
    OBVIOUS
  <2>2. CASE o \in pcaps'
    <3>1. AddPcap(r) /\ o = Object(nextPcap, call[r].domain, r)
      BY <1>1, <1>4, <2>2, PcapEffect
    <3>2. call[r].at = "pcapsPost" /\ "pcapsPost" \in Ops
      BY <3>1 DEF AddPcap, Ops
    <3>3. req[r].op \in Uploads /\ call[r].at \notin {"new", "done", "check", "info"}
      BY <1>1, <3>2 DEF StagesPart, StageFits, Uploads
    <3>4. Stands(d) /\ o.domain = d
      BY <1>1, <2>1, <3>1, <3>3 DEF UseStands, Object
    <3>5. ~(RollBack(r) \/ RemoveDomain(r))
      BY <3>2 DEF RollBack, RemoveDomain
    <3>6. Stands(d)'
      BY <1>2, <3>4, <3>5
    <3>. QED  BY <3>4, <3>6
  <2>3. CASE o \in sessions'
    <3>1. SessionAdded(r)
      BY <1>1, <1>4, <2>3, SessionEffect DEF SessionsShrink, SessionStarted
    <3>2. call[r].at = "addSession" /\ o = Object(nextSession, call[r].domain, r)
      BY <1>4, <2>3, <3>1 DEF SessionAdded, AddSession
    <3>3. req[r].op \in Uploads /\ call[r].at \notin {"new", "done", "check", "info"}
      BY <1>1, <3>2 DEF StagesPart, StageFits, Uploads
    <3>4. Stands(d) /\ o.domain = d
      BY <1>1, <2>1, <3>2, <3>3 DEF UseStands, Object
    <3>5. ~(RollBack(r) \/ RemoveDomain(r))
      BY <3>2 DEF RollBack, RemoveDomain
    <3>6. Stands(d)'
      BY <1>2, <3>4, <3>5
    <3>. QED  BY <3>4, <3>6
  <2>. QED  BY <1>4, <2>2, <2>3
<1>. QED  BY <1>3, <1>4 DEF ObjectsStand

LEMMA MovedGives ==
    ASSUME AuthTypeOK, NEW m \in Names, NEW d \in Domains, NEW ok \in BOOLEAN, SetDomain(m, d, ok)
    PROVE  /\ \A n \in Names : n # m => users'[n] = users[n]
           /\ users'[m] = Absent \/ users'[m].domain = d
<1>1. users \in [Names -> Accounts \cup {Absent}]
  BY DEF AuthTypeOK
<1>2. CASE users[m] # Absent /\ users' = [users EXCEPT ![m].domain = d]
  <2>1. users[m] \in Accounts
    BY <1>1, <1>2
  <2>2. users'[m] = [users[m] EXCEPT !.domain = d]
    BY <1>1, <1>2
  <2>3. users'[m].domain = d
    BY <2>1, <2>2 DEF Accounts
  <2>4. \A n \in Names : n # m => users'[n] = users[n]
    BY <1>1, <1>2
  <2>. QED  BY <2>3, <2>4
<1>3. CASE users[m] = Absent /\ users' = users
  BY <1>3
<1>. QED  BY <1>2, <1>3 DEF SetDomain, Save

LEMMA EnrolledGives ==
    ASSUME AuthTypeOK, NEW m \in Names, NEW role, NEW d, NEW ok, RegisterUser(m, role, d, ok)
    PROVE  /\ \A n \in Names : n # m => users'[n] = users[n]
           /\ users' = users \/ users'[m].domain = d
<1> DEFINE a == Account(role, d)
<1>1. a.domain = d
  BY DEF Account
<1>2. users' = users \/ users' = [users EXCEPT ![m] = a]
  BY DEF RegisterUser, Save
<1> HIDE DEF a
<1>. QED  BY <1>1, <1>2 DEF AuthTypeOK

LEMMA MoveGives ==
    ASSUME AccountsInv, NEW r \in Requests, MoveUser(r)
    PROVE  \/ /\ call'[r].at = "moveUsers"
              /\ \E m \in call[r].move :
                   /\ m \in Names /\ call'[r].move = call[r].move \ {m}
                   /\ \A n \in Names : n # m => users'[n] = users[n]
                   /\ users'[m] = Absent \/ users'[m].domain = DefaultDomain
           \/ call[r].move = {} /\ users' = users
<1>1. AuthTypeOK /\ call \in [Requests -> Calls] /\ call[r] \in Calls /\ call[r].move \subseteq Names
  BY DEF AccountsInv, AccountsPart, CallsPart, Calls
<1>2. CASE \E m \in call[r].move, ok \in BOOLEAN :
             /\ SetDomain(m, DefaultDomain, ok)
             /\ call' = [call EXCEPT ![r].move = @ \ {m}]
  <2>1. PICK m \in call[r].move, ok \in BOOLEAN :
           /\ SetDomain(m, DefaultDomain, ok)
           /\ call' = [call EXCEPT ![r].move = @ \ {m}]
    BY <1>2
  <2>2. call'[r] = [call[r] EXCEPT !.move = @ \ {m}]
    BY <1>1, <2>1
  <2>3. call'[r].at = call[r].at /\ call'[r].move = call[r].move \ {m}
    BY <1>1, <2>2 DEF Calls
  <2>4. m \in Names /\ call[r].at = "moveUsers"
    BY <1>1 DEF MoveUser
  <2>5. /\ \A n \in Names : n # m => users'[n] = users[n]
        /\ users'[m] = Absent \/ users'[m].domain = DefaultDomain
    BY <1>1, <2>1, <2>4, MovedGives, AccountsAssumption
  <2>. QED  BY <2>3, <2>4, <2>5
<1>3. CASE call[r].move = {} /\ users' = users
  BY <1>3
<1>. QED  BY <1>2, <1>3 DEF MoveUser, auth

(* Where a step of r can put account n.                                    *)
LEMMA UsersEffect ==
    ASSUME AccountsInv, NEW r \in Requests, Handle(r), NEW n \in Names
    PROVE  \/ users'[n] = users[n] \/ users'[n] = Absent
           \/ CreateUser(r) /\ users'[n].domain = DomainAsked(r)
           \/ NameOwner(r) /\ users'[n].domain = req[r].domain
           \/ users'[n].domain = DefaultDomain
<1>1. AuthTypeOK /\ req[r].name \in Names /\ req[r].domain \in Domains
  BY DEF AccountsInv, AccountsPart, CallsPart, Asks
<1>2. CASE CreateUser(r)
  <2>1. PICK ok \in BOOLEAN : RegisterUser(req[r].name, RoleAsked(r), DomainAsked(r), ok)
    BY <1>2 DEF CreateUser
  <2>. QED  BY <1>1, <1>2, <2>1, EnrolledGives
<1>3. CASE Delete(r)
  <2> DEFINE m == req[r].name
  <2>1. users' = users \/ users' = [users EXCEPT ![m] = Absent]
    BY <1>3 DEF Delete, DeleteUser, Save, auth
  <2>. QED  BY <1>1, <2>1 DEF AuthTypeOK
<1>4. CASE NameOwner(r)
  <2>1. PICK ok \in BOOLEAN : \/ SetDomain(req[r].name, req[r].domain, ok)
                              \/ RegisterUser(req[r].name, "user", req[r].domain, ok)
    BY <1>4 DEF NameOwner
  <2>. QED  BY <1>1, <1>4, <2>1, EnrolledGives, MovedGives
<1>5. CASE MoveUser(r)
  BY <1>5, MoveGives
<1>. QED  BY <1>2, <1>3, <1>4, <1>5, Framing DEF Frames

LEMMA DefaultStands == Stands(DefaultDomain) /\ Stands(DefaultDomain)'
BY DEF Stands, Exists

(* An account that r leaves where it was.                                  *)
LEMMA UsersRemain ==
    ASSUME AccountsInv, RouteInv, DomainsPart, NEW r \in Requests, Turn(r), InProgress(r),
           NEW n \in Names, users'[n] = users[n], users[n] # Absent,
           NEW d, d = users[n].domain, Stands(d)
    PROVE  Stands(d)' \/ Leaving(n)'
<1>1. CallsPart /\ req' = req
  BY DEF AccountsInv, Turn
<1>2. CASE d = req[r].domain /\ RollBack(r)
  <2>1. Raced(d)
    BY <1>2 DEF DomainsPart, UseStands, RollBack
  <2>. QED  BY <2>1, RacedStays, TurnGrows DEF RouteInv, Stands
<1>3. CASE d = req[r].domain /\ RemoveDomain(r)
  <2>1. Removes(r, d)' /\ Removes(r, d)
    BY <1>1, <1>3, RemovalStage DEF RouteInv, Removes
  <2>2. CASE Answer(r)
    <3>1. CASE r \in unsaved'
      BY <2>1, <3>1 DEF Stands, Raced
    <3>2. CASE r \notin unsaved'
      <4>1. call'[r].at = "done"
        BY <1>1, <2>2, AnswerGives
      <4>2. \/ UNCHANGED domains
            \/ call' = [call EXCEPT ![r].at = "evict", ![r].left =
                           {s.id : s \in sessions \ Elsewhere(sessions, req[r].domain)}]
        BY <1>3, <3>2 DEF RemoveDomain, store
      <4>3. UNCHANGED domains
        <5> DEFINE ids == {s.id : s \in sessions \ Elsewhere(sessions, req[r].domain)}
        <5>1. ASSUME call' = [call EXCEPT ![r].at = "evict", ![r].left = ids] PROVE FALSE
          <6> HIDE DEF ids
          <6>1. call'[r] = [call[r] EXCEPT !.at = "evict", !.left = ids] /\ call[r] \in Calls
            BY <1>1, <5>1 DEF CallsPart
          <6>2. call'[r].at = "evict"
            BY <6>1 DEF Calls
          <6>. QED  BY <4>1, <6>2
        <5>. QED  BY <4>2, <5>1
      <4>4. Raced(d) => Raced(d)'
        BY RacedStays, TurnGrows DEF RouteInv
      <4>. QED  BY <4>3, <4>4 DEF Stands
    <3>. QED  BY <3>1, <3>2
  <2>3. CASE ~Answer(r)
    <3>1. call'[r].at = "evict"
      BY <1>1, <1>3, <2>3, RemovalGives
    <3>2. users'[n].domain = d
      OBVIOUS
    <3>. QED  BY <2>1, <3>1, <3>2 DEF Leaving, Removes
  <2>. QED  BY <2>2, <2>3
<1>. QED  BY <1>1, <1>2, <1>3, StandsStays

(* An account that a removal has yet to move.                              *)
LEMMA UsersWait ==
    ASSUME AccountsInv, RouteInv, NEW r \in Requests, Turn(r), Moves(r),
           NEW n \in Names, users'[n] = users[n], users[n] # Absent, Leaving(n)
    PROVE  Leaving(n)' \/ users'[n].domain = DefaultDomain
<1>1. CallsPart /\ req' = req /\ Handle(r) /\ Departs(r)
  BY Departing DEF AccountsInv, Turn
<1>2. \A q \in Requests : q # r => call'[q] = call[q]
  BY <1>1, OthersStay
<1>3. PICK q \in Requests :
        /\ Removes(q, users[n].domain)
        /\ \/ call[q].at \in {"evict", "listUsers"}
           \/ call[q].at = "moveUsers" /\ n \in call[q].move
  BY DEF Leaving
<1>4. Removes(q, users[n].domain)'
  BY <1>1, <1>3 DEF Removes
<1>5. ASSUME \/ call'[q].at \in {"evict", "listUsers"}
             \/ call'[q].at = "moveUsers" /\ n \in call'[q].move
      PROVE  Leaving(n)'
  BY <1>4, <1>5 DEF Leaving
<1>6. CASE q # r
  BY <1>2, <1>3, <1>5, <1>6
<1>7. CASE q = r /\ call[r].at = "evict"
  BY <1>1, <1>5, <1>7, EvictGives DEF Departs
<1>8. CASE q = r /\ call[r].at = "listUsers"
  <2> DEFINE ns == {m \in Names : users[m].domain = req[r].domain}
  <2>1. call' = [call EXCEPT ![r].at = "moveUsers", ![r].move = ns]
    BY <1>1, <1>8 DEF Departs, ListUsers
  <2>2. n \in ns
    BY <1>3, <1>8 DEF Removes
  <2> HIDE DEF ns
  <2>3. call'[r] = [call[r] EXCEPT !.at = "moveUsers", !.move = ns] /\ call[r] \in Calls
    BY <1>1, <2>1 DEF CallsPart
  <2>4. call'[r].at = "moveUsers" /\ call'[r].move = ns
    BY <2>3 DEF Calls
  <2>. QED  BY <1>5, <1>8, <2>2, <2>4
<1>9. CASE q = r /\ call[r].at = "moveUsers" /\ n \in call[r].move
  <2>1. MoveUser(r)
    BY <1>1, <1>9 DEF Departs
  <2>2. PICK m \in call[r].move :
          /\ call'[r].at = "moveUsers" /\ call'[r].move = call[r].move \ {m}
          /\ users'[m] = Absent \/ users'[m].domain = DefaultDomain
    BY <1>9, <2>1, MoveGives
  <2>3. CASE n = m
    BY <2>2, <2>3
  <2>4. CASE n # m
    BY <1>5, <1>9, <2>2, <2>4
  <2>. QED  BY <2>3, <2>4
<1>. QED  BY <1>3, <1>6, <1>7, <1>8, <1>9

LEMMA UsersStep ==
    ASSUME AccountsInv, RouteInv, DomainsPart, NEW r \in Requests, Turn(r), Moves(r)
    PROVE  UsersStand'
<1>1. Handle(r) /\ CallsPart /\ StagesPart /\ UseStands(r) /\ InProgress(r)
      /\ StageFits(call[r], req[r])
  BY DEF Turn, AccountsInv, RouteInv, DomainsPart, Moves, StagesPart
<1>2. ASSUME NEW n \in Names, users'[n] # Absent
      PROVE  Stands(users[n].domain)' \/ Leaving(n)'
  <2>1. PICK d : d = users'[n].domain
    OBVIOUS
  <2>2. Stands(d)' \/ Leaving(n)'
    <3>1. CASE users'[n] = users[n]
      <4>1. Stands(d) \/ Leaving(n)
        <5>1. Stands(users[n].domain) \/ Leaving(n)
          BY <1>2, <3>1 DEF DomainsPart, UsersStand
        <5>. QED  BY <2>1, <3>1, <5>1
      <4>2. Leaving(n) => Leaving(n)' \/ d = DefaultDomain
        BY <1>1, <1>2, <2>1, <3>1, UsersWait
      <4>3. Stands(d) => Stands(d)' \/ Leaving(n)'
        BY <1>1, <1>2, <2>1, <3>1, UsersRemain
      <4>. QED  BY <4>1, <4>2, <4>3, DefaultStands
    <3>2. CASE CreateUser(r) /\ d = DomainAsked(r)
      <4>1. call[r].at = "create" /\ ~RollBack(r) /\ ~RemoveDomain(r)
        BY <3>2 DEF CreateUser, RollBack, RemoveDomain
      <4>2. Stands(d)
        <5>1. req[r].op \in {"register", "adminUsersPost", "domainUsersPost"}
          BY <1>1, <4>1 DEF StageFits
        <5>2. CASE req[r].op = "register"
          BY <3>2, <5>2, DefaultStands DEF DomainAsked
        <5>3. CASE req[r].op = "adminUsersPost"
          BY <1>1, <3>2, <4>1, <5>3 DEF DomainAsked, UseStands
        <5>4. CASE req[r].op = "domainUsersPost"
          BY <1>1, <3>2, <4>1, <5>4 DEF DomainAsked, UseStands, Uploads
        <5>. QED  BY <5>1, <5>2, <5>3, <5>4
      <4>. QED  BY <1>1, <4>1, <4>2, StandsStays
    <3>3. CASE NameOwner(r) /\ d = req[r].domain
      <4>1. Stands(d) /\ ~RollBack(r) /\ ~RemoveDomain(r)
        BY <1>1, <3>3 DEF NameOwner, RollBack, RemoveDomain, UseStands
      <4>. QED  BY <1>1, <4>1, StandsStays
    <3>4. CASE d = DefaultDomain
      BY <3>4, DefaultStands
    <3>. QED  BY <1>1, <1>2, <2>1, <3>1, <3>2, <3>3, <3>4, UsersEffect
  <2>. QED  BY <2>1, <2>2 DEF Stands, Exists, Raced, Removes
<1>. QED  BY <1>2 DEF UsersStand

LEMMA UseOthers ==
    ASSUME AccountsInv, RouteInv, DomainsPart, NEW r \in Requests, Turn(r), Moves(r),
           NEW q \in Requests, q # r
    PROVE  UseStands(q)'
<1>1. CallsPart /\ StagesPart /\ InProgress(r) /\ call'[q] = call[q] /\ req'[q] = req[q]
  BY OthersStay DEF AccountsInv, RouteInv, Moves, Turn
<1>2. CASE ~InProgress(q)
  <2>1. call'[q].at \in {"new", "done"}
    BY <1>1, <1>2 DEF InProgress
  <2>. QED  BY <2>1 DEF UseStands
<1>3. CASE InProgress(q)
  <2>1. UseStands(q) /\ StageFits(call[q], req[q])
    BY <1>1 DEF DomainsPart, StagesPart
  <2>2. \A d : Stands(d) => Stands(d)'
    BY <1>1, <1>3, UnderOthers
  <2>3. \A d : Raced(d) => Raced(d)'
    BY RacedStays, TurnGrows DEF RouteInv
  <2>4. PICK d, e : d = call[q].domain /\ e = req[q].domain
    OBVIOUS
  <2>5. (Stands(d) => Stands(d)') /\ (Stands(e) => Stands(e)') /\ (Raced(e) => Raced(e)')
    BY <2>2, <2>3
  <2>6. call[q].at \in {"nameOwner", "rollBack"} => Raced(e)'
    <3>1. call[q].at \in {"nameOwner", "rollBack"} => Removes(q, e)
      BY <2>1, <2>4 DEF StageFits, Removes
    <3>. QED  BY <1>1, <1>3, <2>5, <3>1, MeetingRaces
  <2>7. /\ req'[q].op \in Uploads =>
             call'[q].at \in {"new", "done", "check", "info"} \/ Stands(d)'
        /\ call'[q].at = "create" /\ req'[q].op = "adminUsersPost" => Stands(e)'
        /\ call'[q].at \in {"nameOwner", "rollBack"} => Stands(e)' /\ Raced(e)'
    BY <1>1, <2>1, <2>4, <2>5, <2>6 DEF UseStands, Stands
  <2>8. call'[q].domain = d /\ req'[q].domain = e
    BY <1>1, <2>4
  <2>. QED  BY <2>7, <2>8 DEF UseStands, Stands, Exists, Raced, Removes
<1>. QED  BY <1>2, <1>3

LEMMA Homeless == Absent.domain \notin Domains
<1>1. Absent.domain = ""
  BY DEF Absent
<1>. QED  BY <1>1, AccountsAssumption

(* The caller's domain, once its account was found in it.                  *)
LEMMA InfoStands ==
    ASSUME AccountsInv, DomainsPart, NEW r \in Requests, Info(r), ~Answer(r)
    PROVE  Stands(call'[r].domain)
<1> DEFINE d == call'[r].domain
           n == call[r].user
<1>1. /\ n \in Names /\ d \in Domains
      /\ (users[n].domain = "" /\ d = DefaultDomain) \/ users[n].domain = d
  BY InfoGives
<1>2. CASE users[n].domain = d
  <2>1. users[n] # Absent
    BY <1>1, <1>2, Homeless
  <2>2. Stands(d) \/ Leaving(n)
    BY <1>1, <1>2, <2>1 DEF DomainsPart, UsersStand
  <2>3. ASSUME Leaving(n) PROVE Raced(d)
    <3>1. PICK q \in Requests : /\ Removes(q, users[n].domain) /\ InProgress(q)
                                /\ call[q].at \in {"evict", "listUsers", "moveUsers"}
      BY <1>1, <2>3, LeavingRemoves
    <3>2. q # r /\ InProgress(r)
      BY <3>1 DEF Info, InProgress
    <3>. QED  BY <1>2, <3>1, <3>2, MeetingRaces DEF AccountsInv
  <2>. QED  BY <2>2, <2>3 DEF Stands
<1>. QED  BY <1>1, <1>2, DefaultStands

LEMMA UseOwn ==
    ASSUME AccountsInv, RouteInv, DomainsPart, NEW r \in Requests, Turn(r), Moves(r)
    PROVE  UseStands(r)'
<1>1. /\ CallsPart /\ StagesPart /\ InProgress(r) /\ req' = req /\ Handle(r)
      /\ UseStands(r) /\ StageFits(call[r], req[r]) /\ req[r] \in Asks
  BY DEF AccountsInv, RouteInv, Moves, Turn, DomainsPart, StagesPart, CallsPart
<1>2. Arrives(r) /\ Departs(r) /\ StageFits(call'[r], req[r])
  BY <1>1, Arriving, Departing, StageAfter
<1>3. PICK d, e : d = call'[r].domain /\ e = req[r].domain
  OBVIOUS
<1>4. Answer(r) => call'[r].at = "done"
  BY <1>1, AnswerGives
<1>5. ASSUME req[r].op \in Uploads, call'[r].at \notin {"new", "done", "check", "info"}
      PROVE  Stands(d)'
  <2>1. Stands(d)
    <3>1. CASE Info(r)
      BY <1>1, <1>3, <1>4, <1>5, <3>1, InfoStands
    <3>2. CASE Check(r)
      <4>1. call'[r].at \in {"done", "info"}
        BY <1>4, <3>2, CheckGives
      <4>. QED  BY <1>5, <4>1
    <3>3. CASE Continues(r, call'[r].at) /\ ~Info(r) /\ ~Check(r)
      <4>1. call[r].at \notin {"new", "done", "check", "info"} /\ d = call[r].domain
        BY <1>1, <1>2, <1>3, <3>3 DEF Departs, InProgress, Continues
      <4>. QED  BY <1>1, <1>5, <4>1 DEF UseStands
    <3>. QED  BY <1>2, <1>4, <1>5, <3>1, <3>2, <3>3 DEF Arrives
  <2>2. ~RollBack(r) /\ ~RemoveDomain(r)
    BY <1>1, <1>5, RemovalStage DEF Uploads
  <2>. QED  BY <1>1, <2>1, <2>2, StandsStays
<1>6. ASSUME call'[r].at = "create", req[r].op = "adminUsersPost"
      PROVE  Stands(e)'
  <2>1. "register" \in Ops
    BY DEF Ops
  <2>2. UserDomain(r)
    BY <1>1, <1>2, <1>6, <2>1 DEF Arrives, StageFits, AskBootstrap, OwnerOnly
  <2>3. Exists(domains, e) /\ domains' = domains
    BY <1>3, <1>4, <1>6, <2>2 DEF UserDomain, world, objects, store
  <2>. QED  BY <2>3 DEF Stands, Exists
<1>7. ASSUME call'[r].at = "nameOwner"
      PROVE  Stands(e)' /\ \A n \in Names : users'[n].domain = e => Raced(e)'
  <2>1. AddDomain(r) /\ ~Answer(r)
    BY <1>2, <1>4, <1>7 DEF Arrives
  <2>2. /\ ~Exists(domains, e) /\ users' = users
        /\ domains' = domains \cup {[id |-> e, owner |-> req[r].name]}
    BY <1>3, <2>1 DEF AddDomain, auth
  <2>3. Stands(e)'
    <3> DEFINE x == [id |-> e, owner |-> req[r].name]
    <3>1. x.id = e /\ x \in domains'
      BY <2>2
    <3> HIDE DEF x
    <3>. QED  BY <3>1 DEF Stands, Exists
  <2>4. ASSUME NEW n \in Names, users[n].domain = e PROVE Raced(e)
    <3>1. users[n] # Absent
      BY <1>1, <1>3, <2>4, Homeless DEF Asks
    <3>2. Stands(e) \/ Leaving(n)
      BY <2>4, <3>1 DEF DomainsPart, UsersStand
    <3>3. ASSUME Leaving(n) PROVE Raced(e)
      <4>1. PICK q \in Requests : /\ Removes(q, users[n].domain) /\ InProgress(q)
                                  /\ call[q].at \in {"evict", "listUsers", "moveUsers"}
        BY <3>3, LeavingRemoves
      <4>2. q # r
        BY <2>1, <4>1 DEF AddDomain
      <4>. QED  BY <1>1, <2>4, <4>1, <4>2, MeetingRaces
    <3>. QED  BY <2>2, <3>2, <3>3 DEF Stands
  <2>5. Raced(e) => Raced(e)'
    BY RacedStays, TurnGrows DEF RouteInv
  <2>. QED  BY <2>2, <2>3, <2>4, <2>5
<1>8. ASSUME call'[r].at = "rollBack"
      PROVE  Stands(e)' /\ \A n \in Names : users'[n].domain = e => Raced(e)'
  <2>1. NameOwner(r) /\ ~Answer(r)
    BY <1>2, <1>4, <1>8 DEF Arrives
  <2>2. call[r].at = "nameOwner" /\ ~RollBack(r) /\ ~RemoveDomain(r)
    BY <2>1 DEF NameOwner, RollBack, RemoveDomain
  <2>3. Stands(e)'
    BY <1>1, <1>3, <2>2, StandsStays DEF UseStands
  <2>4. users' = users \/ r \in unsaved'
    BY <2>1 DEF NameOwner
  <2>5. Removes(r, e)'
    BY <1>1, <1>3, <2>2 DEF StageFits, Removes
  <2>6. r \in unsaved' => Raced(e)'
    BY <2>5 DEF Raced
  <2>7. Raced(e) => Raced(e)'
    BY RacedStays, TurnGrows DEF RouteInv
  <2>8. \A n \in Names : users[n].domain = e => Raced(e)
    BY <1>1, <1>3, <2>2 DEF UseStands
  <2>. QED  BY <2>3, <2>4, <2>6, <2>7, <2>8
<1>9. call'[r].domain = d /\ req'[r].domain = e
  BY <1>1, <1>3
<1>10. /\ req'[r].op \in Uploads =>
            call'[r].at \in {"new", "done", "check", "info"} \/ Stands(d)'
       /\ call'[r].at = "create" /\ req'[r].op = "adminUsersPost" => Stands(e)'
       /\ call'[r].at \in {"nameOwner", "rollBack"} =>
            Stands(e)' /\ \A n \in Names : users'[n].domain = e => Raced(e)'
  BY <1>1, <1>5, <1>6, <1>7, <1>8
<1>. QED  BY <1>9, <1>10 DEF UseStands, Stands, Exists, Raced, Removes

LEMMA TurnDomains ==
    ASSUME AccountsInv, RouteInv, DomainsPart, NEW r \in Requests, Turn(r)
    PROVE  DomainsPart'
<1>1. Moves(r)
  BY HandleMoves DEF AccountsInv, AccountsPart, Turn
<1>2. \A q \in Requests : UseStands(q)'
  BY <1>1, UseOthers, UseOwn
<1>. QED  BY <1>1, <1>2, ObjectsStep, UsersStep DEF DomainsPart

(* Nothing moves; what is known of the past grows.                         *)
LEMMA StandsRemains ==
    ASSUME StartedPart, Grown, domains' = domains
    PROVE  \A d : (Stands(d) => Stands(d)') /\ (Raced(d) => Raced(d)')
BY RacedStays DEF Stands, Exists

LEMMA BeginDomains ==
    ASSUME CallsPart, RouteInv, DomainsPart, NEW r \in Requests, Begins(r)
    PROVE  DomainsPart'
<1>1. UNCHANGED <<users, domains, pcaps, sessions>>
  BY DEF Begins, Begin, world, auth, objects, store
<1>2. /\ \A q \in Requests : q # r => call'[q] = call[q] /\ req'[q] = req[q]
      /\ call[r].at = "new" /\ call'[r].at \in {"register", "login", "check"}
      /\ call'[r].at \in {"register", "login"} => req'[r].op = call'[r].at
  BY BeginGives
<1>3. \A d : (Stands(d) => Stands(d)') /\ (Raced(d) => Raced(d)')
  BY <1>1, StandsRemains, BeginGrows DEF RouteInv
<1>4. ObjectsStand'
  BY <1>1, <1>3 DEF DomainsPart, ObjectsStand
<1>5. ASSUME NEW n \in Names, users'[n] # Absent
      PROVE  Stands(users[n].domain)' \/ Leaving(n)'
  <2>1. PICK d : d = users[n].domain
    OBVIOUS
  <2>2. Stands(d) \/ Leaving(n)
    BY <1>1, <1>5, <2>1 DEF DomainsPart, UsersStand
  <2>3. ASSUME Leaving(n) PROVE Leaving(n)'
    <3>1. PICK q \in Requests :
            /\ Removes(q, users[n].domain)
            /\ \/ call[q].at \in {"evict", "listUsers"}
               \/ call[q].at = "moveUsers" /\ n \in call[q].move
      BY <2>3 DEF Leaving
    <3>2. call'[q] = call[q] /\ req'[q] = req[q]
      BY <1>2, <3>1
    <3>. QED  BY <1>1, <3>1, <3>2 DEF Leaving, Removes
  <2>4. Stands(d)' \/ Leaving(n)'
    BY <1>3, <2>2, <2>3
  <2>5. users'[n].domain = d
    BY <1>1, <2>1
  <2>. QED  BY <2>4, <2>5 DEF Stands, Exists, Raced, Removes
<1>6. ASSUME NEW q \in Requests PROVE UseStands(q)'
  <2>1. CASE q = r
    BY <1>2, <2>1 DEF UseStands, Uploads
  <2>2. CASE q # r
    <3>1. PICK d, e : d = call[q].domain /\ e = req[q].domain
      OBVIOUS
    <3>2. call'[q] = call[q] /\ req'[q] = req[q] /\ UseStands(q)
      BY <1>2, <2>2 DEF DomainsPart
    <3>3. (Stands(d) => Stands(d)') /\ (Stands(e) => Stands(e)') /\ (Raced(e) => Raced(e)')
      BY <1>3
    <3>4. /\ req'[q].op \in Uploads =>
               call'[q].at \in {"new", "done", "check", "info"} \/ Stands(d)'
          /\ call'[q].at = "create" /\ req'[q].op = "adminUsersPost" => Stands(e)'
          /\ call'[q].at \in {"nameOwner", "rollBack"} =>
               Stands(e)' /\ \A n \in Names : users'[n].domain = e => Raced(e)'
      BY <1>1, <3>1, <3>2, <3>3 DEF UseStands
    <3>5. call'[q].domain = d /\ req'[q].domain = e
      BY <3>1, <3>2
    <3>. QED  BY <3>4, <3>5 DEF UseStands, Stands, Exists, Raced, Removes
  <2>. QED  BY <2>1, <2>2
<1>7. UsersStand'
  BY <1>5 DEF UsersStand
<1>. QED  BY <1>4, <1>6, <1>7 DEF DomainsPart

LEMMA CrashDomains ==
    ASSUME AccountsInv, RouteInv, DomainsPart, Crash
    PROVE  DomainsPart'
<1>1. /\ UNCHANGED <<req, domains, pcaps, sessions>> /\ users' = usersFile /\ Tear
      /\ CallsPart /\ usersFile \in [Names -> Accounts \cup {Absent}]
  BY DEF Crash, Load, store, AccountsInv, AccountsPart, AuthTypeOK
<1>2. \A q \in Requests : call'[q].at \in {"new", "done"}
  BY <1>1, CrashGives DEF InProgress
<1>3. \A d : (Stands(d) => Stands(d)') /\ (Raced(d) => Raced(d)')
  BY <1>1, StandsRemains, CrashGrows DEF RouteInv
<1>4. ObjectsStand'
  BY <1>1, <1>3 DEF DomainsPart, ObjectsStand
<1>5. ASSUME NEW n \in Names, users'[n] # Absent
      PROVE  Stands(users[n].domain)'
  <2>1. PICK d : d = usersFile[n].domain
    OBVIOUS
  <2>2. d \in Domains
    <3>1. usersFile[n] \in Accounts
      BY <1>1, <1>5
    <3>. QED  BY <2>1, <3>1 DEF Accounts
  <2>3. torn' = torn \cup {c \in Domains : \/ \E q \in Requests : InProgress(q) /\ Removes(q, c)
                                           \/ \E m \in Names : /\ users[m] # usersFile[m]
                                                                /\ usersFile[m].domain = c}
    BY <1>1 DEF Tear
  <2>4. ASSUME d \in torn' PROVE Stands(d)'
    BY <2>4 DEF Stands, Raced
  <2>5. users[n] # usersFile[n] => Stands(d)'
    BY <2>1, <2>2, <2>3, <2>4
  <2>6. ASSUME users[n] = usersFile[n] PROVE Stands(d)'
    <3>1. Stands(d) \/ Leaving(n)
      <4>1. Stands(users[n].domain) \/ Leaving(n)
        BY <1>1, <1>5, <2>6 DEF DomainsPart, UsersStand
      <4>. QED  BY <2>1, <2>6, <4>1
    <3>2. ASSUME Leaving(n) PROVE d \in torn'
      <4>1. PICK q \in Requests : Removes(q, users[n].domain) /\ InProgress(q)
        BY <3>2, LeavingRemoves
      <4>. QED  BY <2>1, <2>2, <2>3, <2>6, <4>1
    <3>. QED  BY <1>3, <2>4, <3>1, <3>2
  <2>7. users'[n].domain = d /\ Stands(d)'
    BY <1>1, <2>1, <2>5, <2>6
  <2>. QED  BY <2>7 DEF Stands, Exists, Raced, Removes
<1>6. \A q \in Requests : UseStands(q)'
  BY <1>2 DEF UseStands
<1>7. UsersStand'
  BY <1>5 DEF UsersStand
<1>. QED  BY <1>4, <1>6, <1>7 DEF DomainsPart

LEMMA BootDomains ==
    ASSUME AccountsInv, RouteInv, DomainsPart, Boot
    PROVE  DomainsPart'
<1>1. /\ UNCHANGED <<req, call, met, torn, unsaved, domains, pcaps, sessions>>
      /\ AtRest
      /\ \A n \in Names : \/ users'[n].domain = users[n].domain /\ users[n] # Absent
                          \/ users[n] = Absent /\ users'[n] = Absent
                          \/ users[n] = Absent /\ users'[n].domain = DefaultDomain
  BY BootGives
<1>2. \A d : (Stands(d) => Stands(d)') /\ (Raced(d) => Raced(d)')
  BY <1>1, StandsRemains, BootGrows DEF RouteInv
<1>3. ObjectsStand'
  BY <1>1, <1>2 DEF DomainsPart, ObjectsStand
<1>4. ASSUME NEW n \in Names, users'[n] # Absent
      PROVE  Stands(users[n].domain)'
  <2>1. PICK d : d = users'[n].domain
    OBVIOUS
  <2>2. ASSUME users[n] # Absent, d = users[n].domain PROVE Stands(d)'
    <3>1. Stands(users[n].domain) \/ Leaving(n)
      BY <2>2 DEF DomainsPart, UsersStand
    <3>2. ~Leaving(n)
      BY <1>1, LeavingRemoves DEF AtRest
    <3>. QED  BY <1>2, <2>2, <3>1, <3>2
  <2>3. d = DefaultDomain => Stands(d)'
    BY DefaultStands
  <2>4. Stands(d)'
    BY <1>1, <1>4, <2>1, <2>2, <2>3
  <2>. QED  BY <2>1, <2>4 DEF Stands, Exists, Raced, Removes
<1>5. \A q \in Requests : UseStands(q)'
  <2>1. \A q \in Requests : call'[q].at \in {"new", "done"}
    BY <1>1 DEF AtRest, InProgress
  <2>. QED  BY <2>1 DEF UseStands
<1>6. UsersStand'
  BY <1>4 DEF UsersStand
<1>. QED  BY <1>3, <1>5, <1>6 DEF DomainsPart

LEMMA IdleDomains ==
    ASSUME DomainsPart, Idles
    PROVE  DomainsPart'
<1>1. ObjectsStand'
  BY DEF DomainsPart, ObjectsStand, Stands, Exists, Raced, Removes, Idles
<1>2. UsersStand'
  BY DEF DomainsPart, UsersStand, Stands, Leaving, Exists, Raced, Removes, Idles
<1>3. ASSUME NEW r \in Requests
      PROVE  UseStands(r)'
  BY DEF DomainsPart, UseStands, Stands, Exists, Raced, Removes, Idles
<1>. QED  BY <1>1, <1>2, <1>3 DEF DomainsPart

LEMMA DomainsInit ==
    ASSUME Init
    PROVE  DomainsPart
<1>1. /\ deployment \in Deployments
      /\ call = [r \in Requests |-> Idle] /\ domains = deployment.domains
      /\ users = deployment.users
      /\ pcaps = deployment.pcaps /\ sessions = deployment.sessions
  BY DEF Init, ApiInit
<1>2. /\ \A o \in pcaps \cup sessions : Exists(domains, o.domain)
      /\ \A n \in Names : users[n] # Absent => Exists(domains, users[n].domain)
  BY <1>1, ApiAssumption
<1>3. Idle.at = "new"
  BY DEF Idle
<1>4. \A r \in Requests : UseStands(r)
  BY <1>1, <1>3 DEF UseStands
<1>. QED  BY <1>2, <1>4 DEF DomainsPart, ObjectsStand, UsersStand, Stands

(***************************************************************************)
(* All of it.                                                              *)
(***************************************************************************)
RequestsInv ==
    /\ AccountsInv /\ RouteInv /\ HomePart /\ LibraryInv /\ SessionsPart /\ NotesPart
    /\ DomainsPart

LEMMA RequestsInit ==
    ASSUME Init
    PROVE  RequestsInv
BY AccountsInit, RoutesInit, HomeInit, LibraryInit, SessionsInit, NotesInit, DomainsInit
   DEF RequestsInv

LEMMA RequestsStep ==
    ASSUME RequestsInv, [Next]_vars
    PROVE  RequestsInv'
<1>1. AccountsInv /\ CallsPart
  BY DEF RequestsInv, AccountsInv
<1>2. CASE UNCHANGED apiVars
  <2>1. Idles
    BY <1>2 DEF Idles, apiVars, world, auth, objects, store, marks
  <2>2. LibraryInv' /\ SessionsPart' /\ NotesPart'
    BY <2>1, IdleLibrary, IdleSessions, IdleNotes DEF Idles, RequestsInv
  <2>. QED
    BY <1>2, <2>1, <2>2, RestKeeps, IdleRoutes, IdleHome, IdleDomains DEF RequestsInv
<1>3. ASSUME NEW r \in Requests, Turn(r) PROVE RequestsInv'
  <2>1. AccountsInv'
    BY <1>1, <1>3, HandleKeeps DEF Turn
  <2>2. Moves(r)
    BY <1>1, <1>3, HandleMoves DEF Turn, AccountsInv, AccountsPart
  <2>. QED
    BY <1>1, <1>3, <2>1, <2>2, TurnRoutes, TurnHome, TurnLibrary, TurnSessions, TurnNotes,
       TurnDomains DEF RequestsInv
<1>4. ASSUME NEW r \in Requests, Begins(r) PROVE RequestsInv'
  <2>1. AccountsInv'
    BY <1>1, <1>4, BeginKeeps DEF Begins
  <2>. QED
    BY <1>1, <1>4, <2>1, BeginRoutes, BeginHome, BeginLibrary, BeginSessions, BeginNotes,
       BeginDomains DEF RequestsInv
<1>5. CASE Crash
  <2>1. AccountsInv'
    BY <1>1, <1>5, CrashKeeps
  <2>2. HomePart'
    BY <1>1, <1>5, RestHome, CrashGrows, CrashGives DEF RequestsInv
  <2>. QED
    BY <1>1, <1>5, <2>1, <2>2, CrashRoutes, CrashLibrary, CrashSessions, CrashNotes, CrashDomains
       DEF RequestsInv
<1>6. CASE Boot
  <2>1. AccountsInv'
    BY <1>1, <1>6, BootKeeps
  <2>2. /\ UNCHANGED <<req, call, met, torn, domains, pcaps, sessions, engine, notes,
                       nextPcap, nextSession, unsaved, overwrote, crossed>>
        /\ AtRest
    BY <1>1, <1>6, BootGives
  <2>3. HomePart'
    BY <1>1, <1>6, <2>2, RestHome, BootGrows DEF RequestsInv, AtRest
  <2>4. LibraryInv' /\ SessionsPart' /\ NotesPart'
    BY <2>2, IdleLibrary, IdleSessions, IdleNotes DEF RequestsInv
  <2>. QED
    BY <1>1, <1>6, <2>1, <2>3, <2>4, BootRoutes, BootDomains DEF RequestsInv
<1>7. UNCHANGED apiVars \/ ApiNext
  BY DEF Next, RequestStep, ConnectionStep, RateStep, vars
<1>. QED  BY <1>2, <1>3, <1>4, <1>5, <1>6, <1>7 DEF ApiNext, Turn, Begins

LEMMA RequestsRest ==
    ASSUME RequestsInv
    PROVE  RequestsSound
<1>1. ActsAtHome
  BY DEF RequestsInv, HomePart, ActsAtHome
<1>2. Isolated /\ NotesSeen
  BY DEF RequestsInv, LibraryInv, NotesPart
<1>3. ASSUME AtRest PROVE SessionsMatch /\ DomainsExist
  <2>1. \A q \in Requests : call[q].at \in {"new", "done"}
    BY <1>3 DEF AtRest, InProgress
  <2>2. SessionsMatch
    BY <2>1 DEF RequestsInv, SessionsPart, OnItsWay, Evicted, RemovalOf, SessionsMatch
  <2>3. \A n \in Names : ~Leaving(n)
    BY <2>1 DEF Leaving
  <2>4. DomainsExist
    BY <2>3 DEF RequestsInv, DomainsPart, ObjectsStand, UsersStand, Stands, DomainsExist
  <2>. QED  BY <2>2, <2>4
<1>. QED  BY <1>1, <1>2, <1>3 DEF RequestsSound

(* Whatever is asked at the same time, whichever saves fail and whenever   *)
(* the process dies: a request acts in the domain its account was in and   *)
(* touches what is of that domain, but for accounts that others moved      *)
(* meanwhile; and once none is in progress the store and the engine hold   *)
(* the same sessions, everything is in a domain that exists and no notes   *)
(* were lost, but for removals of a domain and writers that overlapped     *)
(* (api.cpp: the handlers; store.cpp, auth.cpp: their calls).              *)
THEOREM RequestsSafe == Spec => []RequestsSound
<1>1. Spec => []RequestsInv
  BY RequestsInit, RequestsStep, PTL DEF Spec
<1>. QED  BY <1>1, RequestsRest, PTL

(***************************************************************************)
(* The types of what the handlers share.                                   *)
(***************************************************************************)
Tenants(doms) == doms \subseteq TenantDomains /\ \A x, y \in doms : x.id = y.id => x = y

SharedPart ==
    /\ req \in [Requests -> deployment.offers]
    /\ Tenants(domains)
    /\ unsaved \subseteq Requests /\ torn \subseteq Domains
    /\ overwrote \subseteq (Requests \cup {Seed}) \X Requests

LEMMA TurnShared ==
    ASSUME CallsPart, LibraryTypes, SharedPart, NEW r \in Requests, Turn(r)
    PROVE  SharedPart'
<1>1. Handle(r) /\ req' = req /\ deployment' = deployment /\ torn' = torn /\ Frames(r)
  BY Framing DEF Turn
<1>2. unsaved' \subseteq Requests
  BY <1>1, Traces DEF SharedPart
<1>3. Tenants(domains')
  <2>1. CASE domains' \subseteq domains
    BY <2>1 DEF SharedPart, Tenants
  <2>2. CASE AddDomain(r) /\ domains' # domains
    <3> DEFINE x == [id |-> req[r].domain, owner |-> req[r].name]
    <3>1. ~Exists(domains, req[r].domain) /\ domains' = domains \cup {x}
      BY <2>2 DEF AddDomain
    <3>2. req[r].domain \in Domains /\ req[r].name \in Names
      BY DEF CallsPart, Asks
    <3>3. x \in TenantDomains /\ \A y \in domains : y.id # x.id
      BY <3>1, <3>2 DEF Exists, TenantDomains
    <3> HIDE DEF x
    <3>. QED  BY <3>1, <3>3 DEF SharedPart, Tenants
  <2>3. CASE RollBack(r) \/ RemoveDomain(r)
    BY <2>1, <2>3 DEF RollBack, RemoveDomain, DropDomain, store
  <2>. QED  BY <1>1, <2>1, <2>2, <2>3 DEF Frames
<1>4. overwrote' \subseteq (Requests \cup {Seed}) \X Requests
  <2>1. CASE WriteNotes(r)
    <3>1. req[r].id \in Ids
      BY DEF CallsPart, Asks
    <3>2. notes[req[r].id] \in Requests \cup {Seed, Gone}
      BY <3>1 DEF LibraryTypes
    <3>. QED  BY <2>1, <3>2 DEF WriteNotes, marks, SharedPart
  <2>. QED  BY <1>1, <2>1 DEF Frames, SharedPart
<1>. QED  BY <1>1, <1>2, <1>3, <1>4 DEF SharedPart

LEMMA SharedInit ==
    ASSUME Init
    PROVE  SharedPart
<1>1. /\ deployment \in Deployments /\ domains = deployment.domains
      /\ req = [r \in Requests |-> CHOOSE ask \in deployment.offers : TRUE]
      /\ unsaved = {} /\ torn = {} /\ overwrote = {}
  BY DEF Init, ApiInit
<1>2. deployment.offers # {} /\ Tenants(domains)
  BY <1>1, ApiAssumption DEF Tenants
<1>. QED  BY <1>1, <1>2 DEF SharedPart

LEMMA SharedStep ==
    ASSUME RequestsInv, SharedPart, [Next]_vars
    PROVE  SharedPart'
<1>1. CallsPart /\ LibraryTypes
  BY DEF RequestsInv, AccountsInv, LibraryInv
<1>2. CASE UNCHANGED apiVars
  BY <1>2 DEF SharedPart, apiVars, world, objects, store, marks
<1>3. ASSUME NEW r \in Requests, Turn(r) PROVE SharedPart'
  BY <1>1, <1>3, TurnShared
<1>4. ASSUME NEW r \in Requests, Begins(r) PROVE SharedPart'
  <2>1. UNCHANGED <<deployment, domains, unsaved, torn, overwrote>>
    BY <1>4 DEF Begins, Begin, world, objects, store, marks
  <2>2. PICK ask \in deployment.offers : req' = [req EXCEPT ![r] = ask]
    BY <1>4 DEF Begins, Begin
  <2>. QED  BY <2>1, <2>2 DEF SharedPart
<1>5. CASE Crash
  <2>1. UNCHANGED <<deployment, req, domains, unsaved, overwrote>> /\ Tear
    BY <1>5 DEF Crash, store, marks
  <2>. QED  BY <2>1 DEF SharedPart, Tear
<1>6. CASE Boot
  <2>1. UNCHANGED <<deployment, req, domains, unsaved, torn, overwrote>>
    BY <1>6 DEF Boot, objects, store, marks
  <2>. QED  BY <2>1 DEF SharedPart
<1>7. UNCHANGED apiVars \/ ApiNext
  BY DEF Next, RequestStep, ConnectionStep, RateStep, vars
<1>. QED  BY <1>2, <1>3, <1>4, <1>5, <1>6, <1>7 DEF ApiNext, Turn, Begins

LEMMA SharedTypes ==
    ASSUME RequestsInv, SharedPart
    PROVE  ApiTypeOK
<1>1. /\ AuthTypeOK /\ deployment \in Deployments /\ up \in BOOLEAN
      /\ call \in [Requests -> Calls] /\ acked \subseteq Names
      /\ firsts \subseteq Names \X (Requests \cup {Seed})
  BY DEF RequestsInv, AccountsInv, AccountsPart, CallsPart, FirstsPart
<1>2. /\ pcaps \subseteq Objects /\ sessions \subseteq Objects /\ engine \subseteq Objects
      /\ notes \in [Ids -> Requests \cup {Seed, Gone}]
      /\ nextPcap \in 1 .. MaxIds + 1 /\ nextSession \in 1 .. MaxIds + 1
      /\ crossed \subseteq Requests
  BY DEF RequestsInv, LibraryInv, LibraryTypes
<1>3. domains \subseteq TenantDomains /\ \A x \in domains : Owner(x.id) = {x.owner}
  BY DEF SharedPart, Tenants, Owner
<1>. QED  BY <1>1, <1>2, <1>3 DEF SharedPart, ApiTypeOK

(* Requests, the accounts, the domains with one owner each, the library    *)
(* and its counters keep their types, whatever is asked and fails          *)
(* (api.cpp, auth.h, store.h: the members).                            *)
THEOREM RequestsTyped == Spec => []ApiTypeOK
<1>1. Init => RequestsInv /\ SharedPart
  BY RequestsInit, SharedInit
<1>2. RequestsInv /\ SharedPart /\ [Next]_vars => (RequestsInv /\ SharedPart)'
  BY RequestsStep, SharedStep
<1>3. RequestsInv /\ SharedPart => ApiTypeOK
  BY SharedTypes
<1>. QED  BY <1>1, <1>2, <1>3, PTL DEF Spec

(***************************************************************************)
(* The three parts together.                                               *)
(***************************************************************************)
RatesTyped ==
    /\ scene \in {"requests", "connections", "rates"}
    /\ part \in Parts /\ now \in Times /\ calls \in 0 .. MaxCalls[part]
    /\ lastSec \in 0 .. now /\ late \in BOOLEAN

LEMMA RatesTypedStep ==
    ASSUME RatesTyped, [Next]_vars
    PROVE  RatesTyped'
<1>1. CASE UNCHANGED <<scene, part, now, calls, lastSec, late>>
  BY <1>1 DEF RatesTyped
<1>2. CASE RateStep
  <2>1. scene' = scene /\ part' = part /\ GuardNext
    BY <1>2 DEF RateStep, GuardNext
  <2>2. CASE Tick
    BY <2>1, <2>2, GuardAssumption DEF Tick, RatesTyped, Times, traffic
  <2>3. CASE Call
    <3>1. now' = now /\ calls' \in 0 .. MaxCalls[part]
      BY <2>3, GuardAssumption DEF Call, RatesTyped
    <3>2. CASE UNCHANGED traffic
      BY <2>1, <3>1, <3>2 DEF RatesTyped, traffic
    <3>3. CASE \E t \in Readings : TrafficHit(t)
      <4>1. PICK t \in Readings : TrafficHit(t)
        BY <3>3
      <4>2. lastSec' = t /\ late' = (late \/ t < lastSec)
        BY <4>1, Zenon DEF TrafficHit
      <4>3. t \in 0 .. now
        BY DEF Readings, Times, RatesTyped
      <4>. QED  BY <2>1, <3>1, <4>2, <4>3 DEF RatesTyped
    <3>4. CASE \E k \in Keys, p \in {1, Penalty}, t \in Readings : Allow(k, p, t)
      BY <3>2, <3>4 DEF Allow
    <3>5. CASE \E a \in Actors, k \in Kinds, t \in Readings : Record(a, k, t)
      <4>1. PICK a \in Actors, k \in Kinds, t \in Readings : Record(a, k, t)
        BY <3>5, Zenon
      <4>2. UNCHANGED traffic
        BY <4>1, Zenon DEF Record
      <4>. QED  BY <3>2, <4>2
    <3>. QED  BY <2>3, <3>3, <3>4, <3>5, Zenon DEF Call
  <2>. QED  BY <2>1, <2>2, <2>3 DEF GuardNext
<1>. QED  BY <1>1, <1>2 DEF Next, RequestStep, ConnectionStep, vars, guardVars, traffic

(* Requests, connections, buckets and counters keep their types, and no    *)
(* bucket holds more than its size (api.cpp, http.cpp, ratelimit.h: the    *)
(* members).                                                               *)
THEOREM ServingTyped == Spec => []TypeOK
<1>1. Init => RatesTyped
  <2> SUFFICES ASSUME Init PROVE RatesTyped
    OBVIOUS
  <2>1. /\ scene \in {"requests", "connections", "rates"} /\ part \in Parts
        /\ now = 1 /\ calls = 0 /\ lastSec = 0 /\ late = FALSE
    BY DEF Init, GuardInit
  <2>2. 1 \in Times /\ MaxCalls[part] \in Nat
    BY <2>1, GuardAssumption DEF Times
  <2>3. now \in Times /\ calls \in 0 .. MaxCalls[part] /\ lastSec \in 0 .. now
    BY <2>1, <2>2
  <2>4. late \in BOOLEAN
    BY <2>1
  <2>. QED  BY <2>1, <2>3, <2>4 DEF RatesTyped
<1>2. RatesTyped /\ [Next]_vars => RatesTyped'
  BY RatesTypedStep
<1>3. LimitsInv /\ RatesTyped => GuardTypeOK
  <2> SUFFICES ASSUME LimitsInv, RatesTyped, NEW k \in Keys
               PROVE  /\ mBuckets[k].tokens \in Int /\ mBuckets[k].tokens <= Burst[k]
                      /\ mBuckets[k].last \in 0 .. now
    BY DEF GuardTypeOK, RatesTyped
  <2>1. mBuckets[k] \in [tokens : Int, last : Nat] /\ now \in Nat /\ KeyPart(k)
    BY DEF LimitsInv, LimitsTyped
  <2>2. mBuckets[k].last <= now
    BY <2>1 DEF KeyPart, Known, NoBucket
  <2>. QED  BY <2>1, <2>2 DEF KeyPart
<1>4. RatesTyped /\ ApiTypeOK /\ HttpTypeOK /\ GuardTypeOK => TypeOK
  BY DEF RatesTyped, TypeOK
<1>. QED
  BY <1>1, <1>2, <1>3, <1>4, LimitsInit, LimitsStep, ConnectionsTyped, RequestsTyped, PTL DEF Spec
=============================================================================
