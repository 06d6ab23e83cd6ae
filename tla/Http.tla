-------------------------------- MODULE Http --------------------------------
(***************************************************************************)
(* The HTTP server (backend/src/net/http.cpp, http.h), the WebSocket side  *)
(* of a connection (Api::handleUpgrade, Api::streamSession) as far as it   *)
(* owns a descriptor, and the shutdown at the end of main().  The accept   *)
(* loop, one serving thread per connection, the signal handler and main()  *)
(* interleave at every shared access: the stop flags, the registry of      *)
(* clients, their busy flags and the kernel's table of descriptors.  What  *)
(* is said on a connection is left out: a request is read or fails, and a  *)
(* response is written or lost.                                            *)
(***************************************************************************)
EXTENDS Naturals, FiniteSets

CONSTANTS MaxConnections, \* bound: connections in one behaviour
          Loads          \* connections that arrive, threads of the pool, and
                         \* (bound) the requests read on one connection

VARIABLES load,
          conn,          \* where the thread of a connection is, its descriptor
          mStopping,     \* of HttpServer
          listening,     \* the listening socket is not shut down
          acceptor,      \* where serve() is
          told,          \* Api::mStopping
          drain,         \* where main() is
          mClients,      \* the registry: connections with an entry
          listed,        \* drain()'s copy of it, what is left to look at
          aim,           \* what drain() found idle, to be shut down next; or 0
          copied,        \* that copy: connections and their descriptors
          promised,      \* those busy when it was made, until they respond
          lost           \* connections with a response that was not delivered

server == <<mStopping, listening, acceptor, told>>
draining == <<drain, listed, aim, copied, promised>>
threadVars == <<conn, mClients, server, draining, lost>>
httpVars == <<load, threadVars>>

ASSUME HttpAssumption ==
    /\ MaxConnections \in Nat
    /\ Loads \subseteq [connections : 0 .. MaxConnections,
                        threads : 1 .. MaxConnections, asked : Nat]

(* In the order in which they are accepted. *)
Connections == 1 .. MaxConnections

Places == {"none", "posted", "top", "reading", "read", "busy", "written",
           "failed", "closing", "closed", "upgraded", "stream", "left", "gone"}

(* shut: the socket was shut down; busy: of its ClientInfo. *)
NoConn == [at |-> "none", fd |-> 0, shut |-> FALSE, busy |-> FALSE, asked |-> 0]

(* Descriptors a connection holds; between close() and the registry the    *)
(* number may be somebody else's.                                          *)
Open(c) == conn[c].at \notin {"none", "closed", "gone"}

Taken == {conn[c].fd : c \in {d \in Connections : Open(d)}}

Descriptors == 1 .. load.connections

(* accept() takes a number that no file of the process has; which one     *)
(* depends on the other files, too.                                        *)
FreeFds == Descriptors \ Taken

(* A thread of the pool is with c. *)
Served(c) == conn[c].at \notin {"none", "posted", "gone"}

Step(c, from, to) ==
    /\ conn[c].at = from
    /\ conn' = [conn EXCEPT ![c].at = to]
-----------------------------------------------------------------------------
(* The signal handler: stop() sets the flag, then shuts the socket down. *)
Stop ==
    /\ ~mStopping
    /\ mStopping' = TRUE
    /\ UNCHANGED <<conn, mClients, listening, acceptor, told, draining, lost>>

ShutListener ==
    /\ mStopping /\ listening
    /\ listening' = FALSE
    /\ UNCHANGED <<conn, mClients, mStopping, acceptor, told, draining, lost>>

(* serve(): the flag is looked at before every accept(). *)
AcceptLoop ==
    /\ acceptor = "top"
    /\ acceptor' = IF mStopping THEN "returned" ELSE "accept"
    /\ UNCHANGED <<conn, mClients, mStopping, listening, told, draining, lost>>

Accept(c) ==
    /\ acceptor = "accept" /\ listening
    /\ c <= load.connections /\ conn[c].at = "none"
    /\ \A b \in Connections : b < c => conn[b].at # "none"
    /\ \E fd \in FreeFds :
         conn' = [conn EXCEPT ![c] = [NoConn EXCEPT !.at = "posted", !.fd = fd]]
    /\ acceptor' = "top"
    /\ UNCHANGED <<mClients, mStopping, listening, told, draining, lost>>

(* accept() fails: the listening socket was shut down. *)
AcceptWoken ==
    /\ acceptor = "accept" /\ ~listening
    /\ acceptor' = "returned"
    /\ UNCHANGED <<conn, mClients, mStopping, listening, told, draining, lost>>
-----------------------------------------------------------------------------
(* A serving thread: handleConnection. *)

Register(c) == mClients' = mClients \cup {c}

Unregister(c) == mClients' = mClients \ {c}

(* Mutant: the client is only registered once a request is read. *)
ServeUnregistered(c) ==
    /\ Cardinality({d \in Connections : Served(d)}) < load.threads
    /\ conn[c].at = "posted"
    /\ conn' = [conn EXCEPT ![c].at = "top"]
    /\ UNCHANGED <<mClients, server, draining, lost>>

Serve(c) ==
    /\ Cardinality({d \in Connections : Served(d)}) < load.threads
    /\ conn[c].at = "posted"
    /\ conn' = [conn EXCEPT ![c].at = "top"]
    /\ Register(c)
    /\ UNCHANGED <<server, draining, lost>>

(* Mutant: the stop flag is not looked at between two requests, of which   *)
(* drain() may have met the first.                                         *)
LoopTopDeaf(c) ==
    /\ Step(c, "top", "reading")
    /\ UNCHANGED <<mClients, server, draining, lost>>

LoopTop(c) ==
    /\ Step(c, "top", IF mStopping THEN "closing" ELSE "reading")
    /\ UNCHANGED <<mClients, server, draining, lost>>

(* readRequest: a whole request; the end of the connection, a timeout or a *)
(* shutdown; a request that is refused.  A shut socket still yields what   *)
(* was received before.                                                    *)
ReadRequest(c) ==
    /\ \/ /\ conn[c].at = "reading"
          /\ conn[c].asked < load.asked
          /\ conn' = [conn EXCEPT ![c].at = "read", ![c].asked = @ + 1]
       \/ Step(c, "reading", "closing")
       \/ Step(c, "reading", "failed")
    /\ UNCHANGED <<mClients, server, draining, lost>>

(* The answer to a request that is refused is sent by one not busy. *)
RefuseRequest(c) ==
    /\ Step(c, "failed", "closing")
    /\ UNCHANGED <<mClients, server, draining, lost>>

SetBusy(c) ==
    /\ conn[c].at = "read"
    /\ conn' = [conn EXCEPT ![c].at = "busy", ![c].busy = TRUE]
    /\ UNCHANGED <<mClients, server, draining, lost>>

(* The handler and writeResponse. *)
Respond(c) ==
    /\ Step(c, "busy", "written")
    /\ IF conn[c].shut THEN lost' = lost \cup {c} /\ UNCHANGED promised
       ELSE promised' = promised \ {c} /\ UNCHANGED lost
    /\ UNCHANGED <<mClients, server, drain, listed, aim, copied>>

(* Connection: keep-alive or close. *)
ClearBusy(c) ==
    /\ conn[c].at = "written"
    /\ \E next \in {"top", "closing"} :
         conn' = [conn EXCEPT ![c].at = next, ![c].busy = FALSE]
    /\ UNCHANGED <<mClients, server, draining, lost>>

Close(c) ==
    /\ Step(c, "closing", "closed")
    /\ UNCHANGED <<mClients, server, draining, lost>>

RemoveClient(c) ==
    /\ Step(c, "closed", "gone")
    /\ Unregister(c)
    /\ UNCHANGED <<server, draining, lost>>

(* A WebSocket request: its entry goes, the API owns the descriptor. *)
Upgrade(c) ==
    /\ conn[c].at = "busy"
    /\ conn' = [conn EXCEPT ![c].at = "upgraded", ![c].busy = FALSE]
    /\ Unregister(c)
    /\ UNCHANGED <<server, draining, lost>>

(* handleUpgrade: refused and closed, or streamed under a new entry. *)
HandleUpgrade(c) ==
    /\ \/ Step(c, "upgraded", "gone") /\ UNCHANGED mClients
       \/ Step(c, "upgraded", "stream") /\ Register(c)
    /\ UNCHANGED <<server, draining, lost>>

(* streamSession: told to stop, shut down, complete, or left by the client. *)
StreamEnds(c) ==
    /\ Step(c, "stream", "left")
    /\ Unregister(c)
    /\ UNCHANGED <<server, draining, lost>>

CloseStream(c) ==
    /\ Step(c, "left", "gone")
    /\ UNCHANGED <<mClients, server, draining, lost>>
-----------------------------------------------------------------------------
(* main() once serve() has returned. *)
TellStreams ==
    /\ drain = "serving" /\ acceptor = "returned"
    /\ told' = TRUE
    /\ drain' = "pause"
    /\ UNCHANGED <<conn, mClients, mStopping, listening, acceptor, listed, aim,
                   copied, promised, lost>>

(* drain() begins with a copy of the registry. *)
ListClients ==
    /\ drain = "pause"
    /\ listed' = mClients
    /\ copied' = {<<c, conn[c].fd>> : c \in mClients}
    /\ promised' = {c \in mClients : conn[c].busy}
    /\ drain' = "look"
    /\ UNCHANGED <<conn, mClients, server, aim, lost>>

(* Mutant: every client is shut down, busy or not. *)
LookAtAll(c) ==
    /\ drain = "look" /\ c \in listed
    /\ listed' = listed \ {c}
    /\ drain' = "shut" /\ aim' = c
    /\ UNCHANGED <<conn, mClients, server, copied, promised, lost>>

(* The entries one by one; their order is left open. *)
Look(c) ==
    /\ drain = "look" /\ c \in listed
    /\ listed' = listed \ {c}
    /\ IF conn[c].busy THEN UNCHANGED <<drain, aim>>
       ELSE drain' = "shut" /\ aim' = c
    /\ UNCHANGED <<conn, mClients, server, copied, promised, lost>>

(* shutdown() reaches whatever the number stands for by now. *)
Shutdown ==
    /\ drain = "shut"
    /\ conn' = [d \in Connections |->
                   IF Open(d) /\ conn[d].fd = conn[aim].fd
                   THEN [conn[d] EXCEPT !.shut = TRUE] ELSE conn[d]]
    /\ drain' = "look" /\ aim' = 0
    /\ UNCHANGED <<mClients, server, listed, copied, promised, lost>>

Drained ==
    /\ drain = "look" /\ listed = {}
    /\ drain' = "done"
    /\ UNCHANGED <<conn, mClients, server, listed, aim, copied, promised, lost>>
-----------------------------------------------------------------------------
HttpInit ==
    /\ load \in Loads
    /\ conn = [c \in Connections |-> NoConn]
    /\ mStopping = FALSE /\ listening = TRUE
    /\ acceptor = "top"
    /\ told = FALSE
    /\ drain = "serving"
    /\ mClients = {} /\ listed = {} /\ aim = 0
    /\ copied = {} /\ promised = {} /\ lost = {}

(* What the thread of c does whatever its client does. *)
Thread(c) ==
    \/ Serve(c) \/ LoopTop(c) \/ RefuseRequest(c) \/ SetBusy(c) \/ Respond(c)
    \/ ClearBusy(c) \/ Close(c) \/ RemoveClient(c) \/ HandleUpgrade(c)
    \/ CloseStream(c)

Main ==
    \/ TellStreams \/ ListClients \/ Shutdown \/ Drained
    \/ \E c \in Connections : Look(c)

AcceptEnds == AcceptLoop \/ AcceptWoken

HttpNext ==
    /\ \/ Stop \/ ShutListener \/ AcceptEnds \/ Main
       \/ \E c \in Connections :
            Accept(c) \/ Thread(c) \/ ReadRequest(c) \/ Upgrade(c) \/ StreamEnds(c)
    /\ UNCHANGED load
-----------------------------------------------------------------------------
HttpTypeOK ==
    /\ load \in Loads
    /\ conn \in [Connections ->
            [at : Places, fd : Descriptors \cup {0}, shut : BOOLEAN,
             busy : BOOLEAN, asked : 0 .. load.asked]]
    /\ mStopping \in BOOLEAN /\ listening \in BOOLEAN /\ told \in BOOLEAN
    /\ acceptor \in {"top", "accept", "returned"}
    /\ drain \in {"serving", "pause", "look", "shut", "done"}
    /\ mClients \subseteq Connections /\ listed \subseteq Connections
    /\ aim \in Connections \cup {0} /\ (drain = "shut" <=> aim # 0)
    /\ promised \subseteq Connections
    /\ copied \subseteq Connections \X Descriptors
    /\ lost \subseteq Connections

(* The response in hand of a connection that was busy when drain() began   *)
(* is lost only if drain() held an entry of a closed connection with the   *)
(* same descriptor; nothing is lost before drain().                        *)
PromiseKept ==
    /\ drain \in {"serving", "pause"} => lost = {}
    /\ \A c \in lost \cap promised :
         \E d \in Connections \ {c} :
             <<d, conn[c].fd>> \in copied /\ ~Open(d)

(* No two open connections share a descriptor; a client in the registry is *)
(* there as long as drain() may have to wake it.                           *)
Registered ==
    \A c \in Connections :
        /\ c \in mClients <=>
             conn[c].at \notin {"none", "posted", "upgraded", "left", "gone"}
        /\ Open(c) => \A d \in Connections \ {c} : Open(d) => conn[c].fd # conn[d].fd

PromisesKept == PromiseKept /\ Registered

(* Once stop() was called the shutdown ends: drain() returns and so does   *)
(* every serving thread, which pool.stop() joins.                          *)
DrainEnds ==
    mStopping ~> /\ drain = "done"
                 /\ \A c \in Connections : conn[c].at \in {"none", "gone"}
=============================================================================
