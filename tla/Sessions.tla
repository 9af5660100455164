------------------------------ MODULE Sessions ------------------------------
(***************************************************************************)
(* What the reactors promise to the clients, whatever descriptors and      *)
(* Connection objects are reused underneath: clients are taken in the      *)
(* order in which they arrive, each is given to one thread and stays with  *)
(* it, that thread works for one client at a time, and a session is ended  *)
(* only by its own thread, while it works for that client.  Reactor.tla is *)
(* shown to implement this.                                                *)
(***************************************************************************)
EXTENDS Sequences

CONSTANTS Clients, Loops, None

VARIABLES queue,    \* the clients that wait to be taken
          servers,  \* per client, the threads that it has been given to
          serving   \* per thread, the client that it works for

vars == <<queue, servers, serving>>

Init ==
    /\ queue = <<>>
    /\ servers = [c \in Clients |-> {}]
    /\ serving = [l \in Loops |-> None]

Arrive(c) ==
    /\ \A i \in DOMAIN queue : queue[i] # c
    /\ servers[c] = {}
    /\ queue' = Append(queue, c)
    /\ UNCHANGED <<servers, serving>>

\* The first client is given to a thread.
Assign(l) ==
    /\ queue # <<>>
    /\ queue' = Tail(queue)
    /\ servers' = [servers EXCEPT ![Head(queue)] = {l}]
    /\ UNCHANGED serving

Begin(l, c) ==
    /\ serving[l] = None
    /\ servers[c] = {l}
    /\ \A m \in Loops : serving[m] # c
    /\ serving' = [serving EXCEPT ![l] = c]
    /\ UNCHANGED <<queue, servers>>

Pause(l) ==
    /\ serving[l] # None
    /\ serving' = [serving EXCEPT ![l] = None]
    /\ UNCHANGED <<queue, servers>>

Finish(l) ==
    /\ serving[l] # None
    /\ servers' = [servers EXCEPT ![serving[l]] = {}]
    /\ serving' = [serving EXCEPT ![l] = None]
    /\ UNCHANGED queue

Next ==
    \/ \E c \in Clients : Arrive(c)
    \/ \E l \in Loops : Assign(l) \/ Pause(l) \/ Finish(l)
    \/ \E l \in Loops, c \in Clients : Begin(l, c)

Spec == Init /\ [][Next]_vars
=============================================================================
