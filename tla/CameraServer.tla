------------------------------ MODULE CameraServer ------------------------------
(***************************************************************************)
(* The virtual camera's control socket (webcam/server.rs): a thread polls  *)
(* the listener and the clients' descriptors, as they were when it last    *)
(* held the lock, and accepts, reads and retires by what poll answered;    *)
(* the frames' doorbell retires clients of its own between its steps.      *)
(* Each goes through the list one client at a time, under the lock.        *)
(***************************************************************************)
EXTENDS Naturals, FiniteSets, SequencesExt

CONSTANTS
    Conns,  \* bound: the connections applications open
    Fds     \* the descriptor numbers the process has for them

ServerAssumption == IsFiniteSet(Conns)

VARIABLES
    queued,     \* connections waiting to be accepted
    hung,       \* connections whose application has closed its end
    said,       \* connections whose handshake byte is unread
    clients,    \* Shared::clients
    readyCount, \* Shared::ready_count
    stop,       \* Shared::stop
    pc,         \* where the serving thread is
    pollfds,    \* what it polls, and what poll answered
    locked,     \* who holds the lock on the clients for longer than a step
    idx,        \* and the place of the list it has come to, 0 otherwise
    fresh,      \* connections not yet opened
    retired,    \* history: connections the thread closed, or the doorbell did
    renamed     \* history: those accepted under a number that pollfds had for another

vars == <<queued, hung, said, clients, readyCount, stop, pc, pollfds, locked, idx, fresh,
          retired, renamed>>

Client == [conn : Conns, fd : Fds, ready : BOOLEAN]
Polled == [fd : Fds, event : BOOLEAN, hup : BOOLEAN]

TypeOK ==
    /\ {queued, hung, said, fresh, retired, renamed} \subseteq SUBSET Conns
    /\ clients \in Seq(Client) /\ pollfds \in Seq(Polled)
    /\ readyCount \in 0 .. Cardinality(Conns) /\ stop \in BOOLEAN
    /\ pc \in {"poll", "wait", "accept", "scan", "ended", "dropped"}
    /\ locked \in {"no", "thread", "doorbell"} /\ idx \in Nat

Init ==
    /\ queued = {} /\ hung = {} /\ said = {} /\ fresh = Conns
    /\ clients = <<>> /\ readyCount = 0 /\ stop = FALSE
    /\ pc = "poll" /\ pollfds = <<>> /\ locked = "no" /\ idx = 0
    /\ retired = {} /\ renamed = {}

Served == {clients[i].conn : i \in DOMAIN clients}
ReadyOnes == {clients[i].conn : i \in {j \in DOMAIN clients : clients[j].ready}}

-----------------------------------------------------------------------------
\* The applications.
Open(c) ==
    /\ c \in fresh /\ fresh' = fresh \ {c} /\ queued' = queued \cup {c}
    /\ UNCHANGED <<hung, said, clients, readyCount, stop, pc, pollfds, locked, idx, retired,
                   renamed>>

Handshake(c) ==
    /\ \E i \in DOMAIN clients : clients[i].conn = c /\ ~clients[i].ready
    /\ c \notin said \cup hung /\ said' = said \cup {c}
    /\ UNCHANGED <<queued, hung, clients, readyCount, stop, pc, pollfds, locked, idx,
                   fresh, retired, renamed>>

HangUp(c) ==
    /\ c \in (queued \cup Served) \ hung /\ hung' = hung \cup {c}
    /\ UNCHANGED <<queued, said, clients, readyCount, stop, pc, pollfds, locked, idx,
                   fresh, retired, renamed>>

-----------------------------------------------------------------------------
\* A mutant of Watched: only the clients that said hello are polled.
WatchedReady(list) == SelectSeq(list, LAMBDA c : c.ready)

Watched(list) == list

\* The top of the loop: the clients' descriptors, under the lock.
Collect ==
    /\ pc = "poll" /\ ~stop /\ locked = "no" /\ pc' = "wait"
    /\ pollfds' = [i \in DOMAIN Watched(clients) |->
                      [fd |-> Watched(clients)[i].fd, event |-> FALSE, hup |-> FALSE]]
    /\ UNCHANGED <<queued, hung, said, clients, readyCount, stop, locked, idx, fresh, retired,
                   renamed>>

\* Told to stop, by the flag at the loop's top or by the eventfd under poll.
Finish ==
    /\ stop /\ pc \in {"poll", "wait"} /\ pc' = "ended"
    /\ UNCHANGED <<queued, hung, said, clients, readyCount, stop, pollfds, locked, idx, fresh,
                   retired, renamed>>

\* What poll says of a number: of one closed meanwhile, that it is not valid.
Answer(fd) ==
    IF \E i \in DOMAIN clients : clients[i].fd = fd
    THEN LET c == (CHOOSE i \in DOMAIN clients : clients[i].fd = fd)
         IN  [fd |-> fd, event |-> clients[c].conn \in hung \cup said,
              hup |-> clients[c].conn \in hung]
    ELSE [fd |-> fd, event |-> TRUE, hup |-> FALSE]

\* poll returns at an event: a number closed meanwhile is one, too.
Return ==
    /\ pc = "wait" /\ ~stop
    /\ queued # {} \/ \E i \in DOMAIN pollfds : Answer(pollfds[i].fd).event
    /\ pollfds' = [i \in DOMAIN pollfds |-> Answer(pollfds[i].fd)]
    /\ pc' = IF queued # {} THEN "accept" ELSE "scan"
    /\ UNCHANGED <<queued, hung, said, clients, readyCount, stop, locked, idx, fresh, retired,
                   renamed>>

\* A connection accepted takes a number that is free; one whose application has gone
\* cannot be sent the configuration.
Accept(c) ==
    /\ pc = "accept" /\ locked = "no" /\ c \in queued /\ queued' = queued \ {c}
    /\ IF c \in hung THEN UNCHANGED <<clients, renamed>>
       ELSE \E fd \in Fds \ {clients[i].fd : i \in DOMAIN clients} :
                /\ clients' = Append(clients, [conn |-> c, fd |-> fd, ready |-> FALSE])
                /\ renamed' = IF \E i \in DOMAIN pollfds : pollfds[i].fd = fd
                              THEN renamed \cup {c} ELSE renamed
    /\ UNCHANGED <<hung, said, readyCount, stop, pc, pollfds, locked, idx, fresh, retired>>

Accepted ==
    /\ pc = "accept" /\ queued = {} /\ pc' = "scan"
    /\ UNCHANGED <<queued, hung, said, clients, readyCount, stop, pollfds, locked, idx, fresh,
                   retired, renamed>>

\* A mutant of Matches: the n-th answer is taken for the n-th client's.
MatchesPlace(client, polled) == TRUE

Matches(client, polled) == client.fd = polled.fd

\* A mutant of Discount: every client retired is taken off the count.
DiscountAll(client) == 1

Discount(client) == IF client.ready THEN 1 ELSE 0

\* The answers are held against the list, from its beginning.
Scan ==
    /\ pc = "scan" /\ locked = "no"
    /\ locked' = "thread" /\ idx' = 1
    /\ UNCHANGED <<queued, hung, said, clients, readyCount, stop, pc, pollfds, fresh, retired,
                   renamed>>

\* One answer, and the client the list has come to.
AtClient == locked = "thread" /\ pollfds # <<>> /\ idx <= Len(clients)
ThisClient == clients[idx]
Answered == Matches(ThisClient, Head(pollfds)) /\ Head(pollfds).event

\* A client with something to read is ready from now on.
Read ==
    /\ AtClient /\ Answered /\ ThisClient.conn \in said
    /\ said' = said \ {ThisClient.conn}
    /\ clients' = [clients EXCEPT ![idx].ready = TRUE]
    /\ readyCount' = readyCount + 1 - Discount(ThisClient)
    /\ pollfds' = Tail(pollfds) /\ idx' = idx + 1
    /\ UNCHANGED <<queued, hung, stop, pc, locked, fresh, retired, renamed>>

\* One with nothing to read is retired where either end says it is closed, and the
\* next comes to its place.
AtEnd == ThisClient.conn \notin said /\ (ThisClient.conn \in hung \/ Head(pollfds).hup)

Retire ==
    /\ AtClient /\ Answered /\ AtEnd
    /\ clients' = RemoveAt(clients, idx)
    /\ readyCount' = readyCount - Discount(ThisClient)
    /\ retired' = retired \cup {ThisClient.conn}
    /\ pollfds' = Tail(pollfds)
    /\ UNCHANGED <<queued, hung, said, stop, pc, locked, idx, fresh, renamed>>

\* Any other is passed.
Skip ==
    /\ AtClient /\ ~(Answered /\ (ThisClient.conn \in said \/ AtEnd))
    /\ pollfds' = Tail(pollfds) /\ idx' = idx + 1
    /\ UNCHANGED <<queued, hung, said, clients, readyCount, stop, pc, locked, fresh, retired,
                   renamed>>

Scanned ==
    /\ locked = "thread" /\ ~AtClient
    /\ locked' = "no" /\ idx' = 0 /\ pc' = "poll" /\ pollfds' = <<>>
    /\ UNCHANGED <<queued, hung, said, clients, readyCount, stop, fresh, retired, renamed>>

-----------------------------------------------------------------------------
\* A published frame wakes the ready clients, and retires those of them that are
\* gone; one that finds all of them alive changes nothing.
Gone(c) == c.ready /\ c.conn \in hung

RingDoorbell ==
    /\ ~stop /\ locked = "no" /\ \E i \in DOMAIN clients : Gone(clients[i])
    /\ locked' = "doorbell" /\ idx' = 1
    /\ UNCHANGED <<queued, hung, said, clients, readyCount, stop, pc, pollfds, fresh, retired,
                   renamed>>

Wake ==
    /\ locked = "doorbell" /\ idx <= Len(clients)
    /\ IF Gone(ThisClient)
       THEN /\ clients' = RemoveAt(clients, idx) /\ idx' = idx
            /\ readyCount' = readyCount - 1
            /\ retired' = retired \cup {ThisClient.conn}
       ELSE idx' = idx + 1 /\ UNCHANGED <<clients, readyCount, retired>>
    /\ UNCHANGED <<queued, hung, said, stop, pc, pollfds, locked, fresh, renamed>>

Rung ==
    /\ locked = "doorbell" /\ idx > Len(clients)
    /\ locked' = "no" /\ idx' = 0
    /\ UNCHANGED <<queued, hung, said, clients, readyCount, stop, pc, pollfds, fresh, retired,
                   renamed>>

-----------------------------------------------------------------------------
\* Drop, behind the thread that rings: the thread is told, joined, and the clients
\* closed.
Stop ==
    /\ ~stop /\ locked # "doorbell" /\ stop' = TRUE
    /\ UNCHANGED <<queued, hung, said, clients, readyCount, pc, pollfds, locked, idx,
                   fresh, retired, renamed>>

Drop ==
    /\ pc = "ended" /\ pc' = "dropped"
    /\ clients' = <<>> /\ readyCount' = 0 /\ queued' = {}
    /\ UNCHANGED <<hung, said, stop, pollfds, locked, idx, fresh,
                   retired, renamed>>

\* The thread, and the doorbell once it has the lock.
ThreadStep ==
    \/ Collect \/ Return \/ Accepted \/ Finish \/ Drop
    \/ Scan \/ Read \/ Retire \/ Skip \/ Scanned
    \/ Wake \/ Rung
    \/ \E c \in Conns : Accept(c)

Next ==
    \/ ThreadStep \/ RingDoorbell \/ Stop
    \/ \E c \in Conns : Open(c) \/ Handshake(c) \/ HangUp(c)

Spec == Init /\ [][Next]_vars /\ WF_vars(ThreadStep)

-----------------------------------------------------------------------------
\* The lock is let go between poll and what is done with its answer (server.rs:225-251),
\* and the doorbell retires clients in between: no client is closed for another's
\* hang-up, and client_count is the number of clients that are ready.  A client is
\* excepted whose descriptor took over a number that was still polled for another.
ServesLive ==
    /\ retired \subseteq hung \cup renamed
    /\ readyCount = Cardinality(ReadyOnes)

\* "A closed connection is retired the moment its read end reports hangup"
\* (server.rs:7-8), whether or not it ever answered the handshake, and whatever the
\* doorbell retired meanwhile.
HungUpRetired == hung \cap Served = {}
HangupIsRetired == []<>HungUpRetired

=============================================================================
