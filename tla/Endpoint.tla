------------------------------ MODULE Endpoint -------------------------------
(***************************************************************************)
(* kernel/ipc/endpoint.c: synchronous calls through an endpoint.  A client  *)
(* sends and sleeps, the server that owns the endpoint receives and         *)
(* replies, and a manager creates and destroys the endpoint.                *)
(*                                                                          *)
(* A call looks the endpoint up without a lock and then does its work under *)
(* the endpoint's lock.  On one CPU nothing comes between the two (Serial). *)
(* Every caller has the capability its call needs, so access checks pass;   *)
(* every send carries a payload and every caller gives a buffer.            *)
(* An identifier is the generation the endpoint was created in.             *)
(*                                                                          *)
(* A store through a user pointer of another thread goes to whatever the    *)
(* running thread's address space has there.  It reaches the buffer when    *)
(* the two threads share an address space (near), as kernel threads and the *)
(* threads of one process do; otherwise the buffer stays as it was.  What   *)
(* else such a store damages is not modelled.                               *)
(***************************************************************************)
EXTENDS Integers

CONSTANTS
  Client,        \* threads that send
  Server,        \* the thread that owns the endpoint, receives and replies
  Manager,       \* the thread that creates and destroys
  Msg,           \* payloads
  None,          \* no thread, no buffer, no payload
  Temp,          \* a buffer of the message slab
  AllocMayFail,  \* whether endpoint_msg_buf_alloc can return NULL
  Lives,         \* bound on the endpoints created
  Serial         \* whether calls exclude each other

Thread == Client \cup {Server, Manager}

ASSUME EndpointAssumption ==
  /\ Server \notin Client /\ Manager \notin Client \cup {Server}
  /\ None \notin Thread \cup Msg /\ Temp \notin Thread \cup {None}
  /\ AllocMayFail \in BOOLEAN /\ Serial \in BOOLEAN /\ Lives \in Nat

VARIABLES
  ep,      \* the ipc_endpoint_t
  run,     \* run[t]: KTHREAD_STATE of thread t
  pc,      \* pc[t]: where thread t is
  id,      \* id[t]: the identifier t's call looked up
  near,    \* clients in the server's address space; never changes
  req,     \* req[c]: the payload client c sends
  inbox,   \* the server's receive buffer
  answer,  \* answer[c]: client c's reply buffer
  said,    \* said[c]: the reply the server gave to c's call, if any
  owes     \* whether the server has received and not replied

vars == <<ep, run, pc, id, near, req, inbox, answer, said, owes>>

\* "handed" and "sent" are the two calls of schedule() in ipc_msg_send: after
\* the payload went to a waiting receiver, and after it was left for a later one.
Asleep == {"handed", "sent", "received"}

\* Places where a thread is not inside one call's work
Rest == {"out"} \cup Asleep
Labels == Rest \cup {"send", "receive", "reply", "destroy"}

Init ==
  /\ ep = [gen |-> 0, state |-> "IDLE", owner |-> None, sender |-> None,
           send |-> None, recv |-> None, sender_recv |-> None]
  /\ run = [t \in Thread |-> "READY"]
  /\ pc = [t \in Thread |-> "out"]
  /\ id = [t \in Thread |-> 0]
  /\ near \in SUBSET Client
  /\ req = [c \in Client |-> None]
  /\ inbox = None
  /\ answer = [c \in Client |-> None]
  /\ said = [c \in Client |-> None]
  /\ owes = FALSE

Goto(t, l) == pc' = [pc EXCEPT ![t] = l]

\* Thread t runs again if it is blocked, on whatever it is blocked.
Woken(r, t) == IF t # None /\ r[t] = "BLOCKED" THEN [r EXCEPT ![t] = "READY"] ELSE r

\* Outcomes of endpoint_msg_buf_alloc
Alloc == IF AllocMayFail THEN {None, Temp} ELSE {Temp}

Exists == ep.state # "IDLE"

\* get_endpoint and endpoint_is_valid: thread t starts a call with the
\* identifier of the endpoint that exists; with any other it fails at once.
Lookup(t, l) ==
  /\ pc[t] = "out" /\ Exists
  /\ Serial => \A u \in Thread : pc[u] \in Rest
  /\ id' = [id EXCEPT ![t] = ep.gen]
  /\ Goto(t, l)
  /\ UNCHANGED <<ep, run, near, inbox, answer, owes>>

\* Bug: a slot that is in use is handed out again.
CreateTaken ==
  /\ pc[Manager] = "out" /\ ep.gen < 2 * Lives
  /\ ep' = [ep EXCEPT !.gen = @ + 1, !.state = "PENDING", !.owner = Server, !.sender = None]
  /\ UNCHANGED <<run, pc, id, near, req, inbox, answer, said, owes>>

\* ipc_endpoint_create; the generation advances.
Create ==
  /\ pc[Manager] = "out" /\ ~Exists /\ ep.gen < 2 * Lives
  /\ Serial => \A u \in Thread : pc[u] \in Rest
  /\ ep' = [ep EXCEPT !.gen = @ + 1, !.state = "PENDING", !.owner = Server, !.sender = None]
  /\ UNCHANGED <<run, pc, id, near, req, inbox, answer, said, owes>>

DestroyCall == Lookup(Manager, "destroy") /\ UNCHANGED <<req, said>>

\* Bug: the receiver is forgotten.
DestroyWakesSenderOnly ==
  /\ pc[Manager] = "destroy"
  /\ run' = Woken(run, ep.sender)
  /\ ep' = [gen |-> ep.gen + 1, state |-> "IDLE", owner |-> None, sender |-> None,
            send |-> None, recv |-> None, sender_recv |-> None]
  /\ Goto(Manager, "out")
  /\ UNCHANGED <<id, near, req, inbox, answer, said, owes>>

\* ipc_endpoint_destroy under the lock: the recorded sender and the owner wake.
Destroy ==
  /\ pc[Manager] = "destroy"
  /\ run' = Woken(Woken(run, ep.sender), ep.owner)
  /\ ep' = [gen |-> ep.gen + 1, state |-> "IDLE", owner |-> None, sender |-> None,
            send |-> None, recv |-> None, sender_recv |-> None]
  /\ Goto(Manager, "out")
  /\ UNCHANGED <<id, near, req, inbox, answer, said, owes>>

\* ipc_msg_send and ipc_msg_send_timeout with time to wait
SendCall(c, m) ==
  /\ Lookup(c, "send")
  /\ req' = [req EXCEPT ![c] = m] /\ said' = [said EXCEPT ![c] = None]

\* The receiver waits: the payload is stored through its buffer pointer while
\* the sender's address space is the active one, the reply is to go into a slab
\* buffer if there is one, and the two threads change places.
SendFast(c) ==
  /\ pc[c] = "send" /\ ep.state = "RECEIVING"
  /\ \E b \in Alloc :
       ep' = [ep EXCEPT !.state = "REPLYING", !.sender = c,
                        !.sender_recv = IF b = Temp THEN Temp ELSE c]
  /\ inbox' = IF c \in near THEN req[c] ELSE inbox
  /\ run' = [Woken(run, ep.owner) EXCEPT ![c] = "BLOCKED"]
  /\ Goto(c, "handed")
  /\ UNCHANGED <<id, near, req, answer, said, owes>>


\* Nobody waits: the sender is recorded with a kernel copy of the payload ...
SendSlow(c) ==
  /\ pc[c] = "send" /\ ep.state # "RECEIVING"
  /\ ep' = [ep EXCEPT !.state = "PENDING", !.sender = c, !.send = req[c], !.sender_recv = c]
  /\ run' = [run EXCEPT ![c] = "BLOCKED"]
  /\ Goto(c, "sent")
  /\ UNCHANGED <<id, near, req, inbox, answer, said, owes>>

\* ... or, without a buffer for the copy, recorded and sent back with -ENOMEM.
SendNoBuffer(c) ==
  /\ pc[c] = "send" /\ ep.state # "RECEIVING" /\ AllocMayFail
  /\ ep' = [ep EXCEPT !.state = "PENDING", !.sender = c]
  /\ Goto(c, "out")
  /\ UNCHANGED <<run, id, near, req, inbox, answer, said, owes>>

\* schedule() returns in ipc_msg_send, which reports success.
SendReturns(c) ==
  /\ pc[c] \in {"handed", "sent"} /\ run[c] = "READY"
  /\ Goto(c, "out")
  /\ UNCHANGED <<ep, run, id, near, req, inbox, answer, said, owes>>

\* ipc_msg_receive, by a server that has replied to what it received before
ReceiveCall ==
  /\ ~owes /\ Lookup(Server, "receive")
  /\ UNCHANGED <<req, said>>

\* Bug: the kernel copy is freed before it is copied out.
ReceivePendingEmpty ==
  /\ pc[Server] = "receive" /\ ep.state = "PENDING" /\ ep.sender # None
  /\ UNCHANGED inbox
  /\ ep' = [ep EXCEPT !.state = "REPLYING", !.recv = Server, !.send = None]
  /\ owes' = TRUE
  /\ Goto(Server, "out")
  /\ UNCHANGED <<run, id, near, req, answer, said>>

\* A sender is recorded: its payload, if it left one, is copied out.
ReceivePending ==
  /\ pc[Server] = "receive" /\ ep.state = "PENDING" /\ ep.sender # None
  /\ inbox' = IF ep.send # None THEN ep.send ELSE inbox
  /\ ep' = [ep EXCEPT !.state = "REPLYING", !.recv = Server, !.send = None]
  /\ owes' = TRUE
  /\ Goto(Server, "out")
  /\ UNCHANGED <<run, id, near, req, answer, said>>

\* No sender is recorded, or the endpoint is in another state: wait for one.
ReceiveWait ==
  /\ pc[Server] = "receive" /\ ~(ep.state = "PENDING" /\ ep.sender # None)
  /\ ep' = [ep EXCEPT !.state = "RECEIVING", !.recv = Server]
  /\ run' = [run EXCEPT ![Server] = "BLOCKED"]
  /\ Goto(Server, "received")
  /\ UNCHANGED <<id, near, req, inbox, answer, said, owes>>

\* schedule() returns in ipc_msg_receive, which reports success, also when the
\* endpoint was destroyed.
ReceiveReturns ==
  /\ pc[Server] = "received" /\ run[Server] = "READY"
  /\ owes' = TRUE
  /\ Goto(Server, "out")
  /\ UNCHANGED <<ep, run, id, near, req, inbox, answer, said>>

\* ipc_msg_reply, with the identifier of the receive
ReplyCall ==
  /\ owes /\ id[Server] = ep.gen /\ Lookup(Server, "reply")
  /\ UNCHANGED <<req, said>>

\* A reply through an identifier that has become invalid fails at once.
ReplyStale ==
  /\ pc[Server] = "out" /\ owes /\ id[Server] # ep.gen
  /\ Serial => \A u \in Thread : pc[u] \in Rest
  /\ owes' = FALSE
  /\ UNCHANGED <<ep, run, pc, id, near, req, inbox, answer, said>>

\* ipc_msg_reply under the lock: the reply is stored through sender_recv_buf in
\* the server's address space, the pointer is then reset or not depending on
\* its value, and the recorded sender wakes.
Reply(m) ==
  /\ pc[Server] = "reply" /\ ep.state = "REPLYING"
  /\ answer' = [c \in Client |-> IF ep.sender_recv = c /\ c \in near THEN m ELSE answer[c]]
  /\ said' = [c \in Client |-> IF ep.sender = c /\ run[c] = "BLOCKED" THEN m ELSE said[c]]
  /\ run' = Woken(run, ep.sender)
  /\ \E b \in {None, ep.sender_recv} :
       ep' = [ep EXCEPT !.state = "PENDING", !.recv = None, !.sender = None, !.sender_recv = b]
  /\ owes' = FALSE
  /\ Goto(Server, "out")
  /\ UNCHANGED <<id, near, req, inbox>>

\* A second send has made the endpoint PENDING again, or it was destroyed and
\* created under the server: the reply is refused.
ReplyRefused ==
  /\ pc[Server] = "reply" /\ ep.state # "REPLYING"
  /\ owes' = FALSE
  /\ Goto(Server, "out")
  /\ UNCHANGED <<ep, run, id, near, req, inbox, answer, said>>

Next ==
  \/ Create \/ DestroyCall \/ Destroy
  \/ ReceiveCall \/ ReceivePending \/ ReceiveWait \/ ReceiveReturns
  \/ ReplyCall \/ ReplyStale \/ ReplyRefused \/ \E m \in Msg : Reply(m)
  \/ \E c \in Client :
       SendFast(c) \/ SendSlow(c) \/ SendNoBuffer(c) \/ SendReturns(c) \/ \E m \in Msg : SendCall(c, m)

Spec == Init /\ [][Next]_vars

-----------------------------------------------------------------------------
\* Every field has a value of its type.
TypeOK ==
  /\ ep \in [gen : 0 .. 2 * Lives, state : {"IDLE", "PENDING", "RECEIVING", "REPLYING"},
             owner : {Server, None}, sender : Client \cup {None}, send : Msg \cup {None},
             recv : {Server, None}, sender_recv : Client \cup {None, Temp}]
  /\ run \in [Thread -> {"READY", "BLOCKED"}]
  /\ pc \in [Thread -> Labels]
  /\ id \in [Thread -> 0 .. 2 * Lives]
  /\ near \subseteq Client
  /\ req \in [Client -> Msg \cup {None}] /\ inbox \in Msg \cup {None}
  /\ answer \in [Client -> Msg \cup {None}] /\ said \in [Client -> Msg \cup {None}]
  /\ owes \in BOOLEAN

\* Nobody sleeps where no call will find it: a client asleep in ipc_msg_send is
\* the recorded sender of the existing endpoint, waiting to be received with
\* its payload or to be replied to; a server asleep in ipc_msg_receive owns an
\* endpoint that is RECEIVING.  Failed sends and destroy included.
SleepersReachable ==
  /\ \A c \in Client : run[c] = "BLOCKED" =>
       /\ Exists /\ id[c] = ep.gen /\ ep.sender = c
       /\ (ep.state = "PENDING" /\ ep.send = req[c]) \/ ep.state = "REPLYING"
  /\ run[Server] = "BLOCKED" =>
       /\ Exists /\ id[Server] = ep.gen
       /\ ep.owner = Server /\ ep.state = "RECEIVING"

\* The server works on the request of the client that waits for its reply: the
\* payload reaches the receive buffer unchanged through the kernel copy, and
\* through the direct copy (endpoint.c:784) if the two share an address space;
\* no failed send replaces it.
RequestIntact ==
  \A c \in Client :
    /\ ep.state = "REPLYING" /\ ep.sender = c /\ run[c] = "BLOCKED"
    /\ pc[c] = "sent" \/ c \in near
    => inbox = req[c]

\* When client c's send returns, its reply buffer holds what the server replied.
Answered(c) ==
  pc[c] \in {"handed", "sent"} /\ run[c] = "READY" /\ said[c] # None => answer[c] = said[c]


-----------------------------------------------------------------------------
\* ipc_endpoint.h:79: recv_buf holds the reply when ipc_msg_send returns, for
\* clients in the server's address space.
ReplyDelivered == \A c \in near : Answered(c)

\* endpoint.c:651: after a destroy no thread hangs in a call for ever.  No
\* endpoint is left that a blocked thread could be woken through.
DestroyReleasesAll == ~Exists => \A t \in Thread : run[t] # "BLOCKED"
=============================================================================
