---------------------------------- MODULE Net ----------------------------------
(* The network calls of the kernel: the table of listening ports, the table   *)
(* of sockets, the files that stand for their entries, and the packets that   *)
(* accept and read take from the device while they wait. Nothing else looks   *)
(* at the device, and a call that waits does so in a loop inside the kernel,  *)
(* so no other process runs until it has what it waits for.                   *)
(* Packets come in any order, repeated or not at all. TCP and UDP differ only *)
(* in how a socket comes about; a write sends and changes nothing here; so do *)
(* ARP and empty acknowledgements, which are left out.                        *)
EXTENDS Naturals, Sequences, FiniteSetsExt, Functions

CONSTANTS
  Pid, FIRST,  \* process slots, and the process that is there at the start
  None,        \* an empty slot, no process, no call
  Peer, Port,  \* the remote ends, and the local ports
  Data,        \* what a packet carries
  Empty,       \* the contents of a packet that ends a connection
  MaxFd,       \* bound: entries of all fd tables together
  MaxPort,     \* bound: entries of the port table
  MaxFile,     \* bound: open ports and sockets
  MaxBuf       \* bound: packets in all sockets, when one comes for no waiting read

ASSUME NetAssumption ==
  /\ FIRST \in Pid /\ None \notin Pid /\ Empty \notin Data
  /\ MaxFd \in Nat /\ MaxPort \in Nat /\ MaxFile \in Nat /\ MaxBuf \in Nat

VARIABLES
  listening,  \* LISTEN_TABLE: [port, receivable, schedule] or None, by index
  sockets,    \* SOCKET_TABLE: [conn, buffers] or None, by index
  file,       \* the open PortFd, TCP and UDP files: [kind, idx, conn] by number
  fds,        \* the fd_table of each process that runs: file numbers, or 0
  busy,       \* the call that waits for packets, or None
  panic,      \* "no", or the assertion that stopped the kernel
  owed        \* by file, the packets that came for it and it has not read

net_vars == <<listening, sockets, file, fds, busy, panic, owed>>

Conn == Peer \X Port  \* remote address and port, local port
Syn == [kind : {"syn"}, conn : Conn]
Packet == Syn \cup [kind : {"data"}, conn : Conn, data : Data \cup {Empty}]
File == 1..MaxFile

Entry == [port : Port, receivable : BOOLEAN, schedule : Pid \cup {None}]
Socket == [conn : Conn, buffers : Seq(Data \cup {Empty})]
OpenFile == [kind : {"port", "socket"}, idx : Nat, conn : Conn \cup {None}]
Waits == [call : {"accept", "read"}, proc : Pid, idx : Nat]

(* Option::None is no entry of a table. *)
ASSUME NoneIsNoEntry == None \notin Entry \cup Waits /\ None \notin Socket

NetInit ==
  /\ listening = <<>> /\ sockets = <<>> /\ file = <<>> /\ owed = <<>>
  /\ fds = [p \in {FIRST} |-> <<>>] /\ busy = None /\ panic = "no"
-----------------------------------------------------------------------------
(* A table: the first empty slot is used, else one is added. *)
Slot(table, empty) ==
  LET free == {i \in DOMAIN table : table[i] = empty}
  IN IF free = {} THEN Len(table) + 1 ELSE Min(free)
Put(table, i, x) ==
  [j \in 1..(IF i > Len(table) THEN i ELSE Len(table)) |-> IF j = i THEN x ELSE table[j]]

(* Mutant: the remote end is not compared. *)
GetSocket_by_port(c) ==
  {i \in DOMAIN sockets : sockets[i] # None /\ sockets[i].conn[2] = c[2]}
(* get_socket: the index of the connection, as a set of at most one. *)
GetSocket(c) == {i \in DOMAIN sockets : sockets[i] # None /\ sockets[i].conn = c}

FreshFile == Min(File \ DOMAIN file)
Added(f, k, x) == [j \in DOMAIN f \cup {k} |-> IF j = k THEN x ELSE f[j]]
(* The fd tables, with one more descriptor of p, are within the bound. *)
Fits(f) == FoldFunction(+, 0, [p \in DOMAIN f |-> Len(f[p])]) <= MaxFd
Given(p, k) == [fds EXCEPT ![p] = Put(@, Slot(@, 0), k)]
CanOpen(p) == Cardinality(DOMAIN file) < MaxFile /\ Fits(Given(p, FreshFile))
(* A new file f of process p, at alloc_fd's descriptor. *)
Opens(p, f) ==
  /\ file' = Added(file, FreshFile, f) /\ owed' = Added(owed, FreshFile, <<>>)
  /\ fds' = Given(p, FreshFile)

(* Mutant: the connection is not looked up first. *)
AddSocket_unchecked(p, c) ==
  LET i == Slot(sockets, None) IN
  /\ sockets' = Put(sockets, i, [conn |-> c, buffers |-> <<>>])
  /\ Opens(p, [kind |-> "socket", idx |-> i, conn |-> c])
  /\ UNCHANGED panic
(* add_socket for a TCP or UDP file of process p, with its `expect`. *)
AddSocket(p, c) ==
  LET i == Slot(sockets, None) IN
  \/ /\ GetSocket(c) # {} /\ panic' = "socket_exists"
     /\ UNCHANGED <<sockets, file, fds, owed>>
  \/ /\ GetSocket(c) = {}
     /\ sockets' = Put(sockets, i, [conn |-> c, buffers |-> <<>>])
     /\ Opens(p, [kind |-> "socket", idx |-> i, conn |-> c])
     /\ UNCHANGED panic

Calls(p) == panic = "no" /\ busy = None /\ p \in DOMAIN fds
IsOpen(p, fd) == fd \in DOMAIN fds[p] /\ fds[p][fd] # 0
-----------------------------------------------------------------------------
(* sys_connect: a UDP socket. *)
sys_connect(p, c) ==
  /\ Calls(p) /\ CanOpen(p)
  /\ AddSocket(p, c) /\ UNCHANGED <<listening, busy>>

(* sys_listen: the same port may be listened to any number of times. *)
sys_listen(p, port) ==
  LET i == Slot(listening, None) IN
  /\ Calls(p) /\ CanOpen(p) /\ i <= MaxPort
  /\ listening' = Put(listening, i,
                      [port |-> port, receivable |-> TRUE, schedule |-> None])
  /\ Opens(p, [kind |-> "port", idx |-> i, conn |-> None])
  /\ UNCHANGED <<sockets, busy, panic>>

(* Mutant: a port that accepted once stays closed to connections. *)
sys_accept_once(p, i) ==
  /\ Calls(p) /\ CanOpen(p)
  /\ IF i > Len(listening) \/ listening[i] = None
     THEN panic' = "no_such_port" /\ UNCHANGED <<listening, busy>>
     ELSE /\ listening' = [listening EXCEPT ![i].schedule = p]
          /\ busy' = [call |-> "accept", proc |-> p, idx |-> i] /\ UNCHANGED panic
  /\ UNCHANGED <<sockets, file, fds, owed>>
(* sys_accept up to its loop. It takes a port index, anybody's, which must    *)
(* name a port that is listened to.                                           *)
sys_accept(p, i) ==
  /\ Calls(p) /\ CanOpen(p)
  /\ IF i > Len(listening) \/ listening[i] = None
     THEN panic' = "no_such_port" /\ UNCHANGED <<listening, busy>>
     ELSE /\ listening' = [listening EXCEPT ![i].receivable = TRUE, ![i].schedule = p]
          /\ busy' = [call |-> "accept", proc |-> p, idx |-> i] /\ UNCHANGED panic
  /\ UNCHANGED <<sockets, file, fds, owed>>

(* pop_data: the first packet, whole or cut to the reader's buffer. *)
Pops(k) ==
  /\ sockets' = [sockets EXCEPT ![file[k].idx].buffers = Tail(@)]
  /\ owed' = [owed EXCEPT ![k] = Tail(@)]
  /\ busy' = None /\ UNCHANGED <<listening, file, fds, panic>>
Waiting(k) == sockets[file[k].idx].buffers = <<>>

(* TCP::read and UDP::read. *)
sys_read(p, fd) ==
  /\ Calls(p) /\ IsOpen(p, fd) /\ file[fds[p][fd]].kind = "socket"
  /\ \/ ~Waiting(fds[p][fd]) /\ Pops(fds[p][fd])
     \/ /\ Waiting(fds[p][fd])
        /\ busy' = [call |-> "read", proc |-> p, idx |-> fds[p][fd]]
        /\ UNCHANGED <<listening, sockets, file, fds, panic, owed>>
ReadReturns ==
  /\ panic = "no" /\ busy # None /\ busy.call = "read"
  /\ ~Waiting(busy.idx) /\ Pops(busy.idx)

(* net_interrupt_handler, called by a waiting accept or read. *)
Polls == /\ panic = "no" /\ busy # None
         /\ busy.call = "read" => Waiting(busy.idx)

(* check_accept: the first receivable entry of the port, if somebody waits    *)
(* there, gets the connection, and the loop of that accept ends.              *)
Acceptable(port) == {i \in DOMAIN listening : /\ listening[i] # None
                                              /\ listening[i].port = port
                                              /\ listening[i].receivable}
Taker(port) ==
  {i \in Acceptable(port) : /\ \A j \in Acceptable(port) : i <= j
                            /\ listening[i].schedule # None}
ReceiveSyn(pk) ==
  /\ Polls
  /\ \E i \in Taker(pk.conn[2]) :
       /\ listening' = [listening EXCEPT ![i].receivable = FALSE, ![i].schedule = None]
       /\ AddSocket(listening[i].schedule, pk.conn)
       /\ busy' = IF busy.call = "accept" /\ ~listening'[busy.idx].receivable
                  THEN None ELSE busy

(* Any other packet goes to the socket of its connection, if there is one; a  *)
(* FIN is an empty packet there.                                              *)
PushData(i, d) == sockets' = [sockets EXCEPT ![i].buffers = Append(@, d)]
Room == FoldFunction(+, 0, [k \in DOMAIN owed |-> Len(owed[k])]) < MaxBuf
ReceiveData(pk) ==
  /\ Polls
  /\ Room \/ (busy.call = "read" /\ file[busy.idx].conn = pk.conn)
  /\ \E i \in GetSocket(pk.conn) : PushData(i, pk.data)
  /\ owed' = [k \in DOMAIN owed |-> IF file[k].conn = pk.conn
                                    THEN Append(owed[k], pk.data) ELSE owed[k]]
  /\ UNCHANGED <<listening, file, fds, busy, panic>>
-----------------------------------------------------------------------------
(* A file is dropped with its last descriptor, and its entry with it. *)
Held(f) == {k \in DOMAIN file : \E p \in DOMAIN f : k \in Range(f[p])}
Dropped(kind, f, i) ==
  \E k \in DOMAIN file \ Held(f) : file[k].kind = kind /\ file[k].idx = i
Drops(f) ==
  /\ fds' = f
  /\ file' = [k \in Held(f) |-> file[k]] /\ owed' = [k \in Held(f) |-> owed[k]]
  /\ sockets' = [i \in DOMAIN sockets |->
                   IF Dropped("socket", f, i) THEN None ELSE sockets[i]]
  /\ listening' = [i \in DOMAIN listening |->
                     IF Dropped("port", f, i) THEN None ELSE listening[i]]
  /\ UNCHANGED <<busy, panic>>

sys_close(p, fd) == Calls(p) /\ IsOpen(p, fd) /\ Drops([fds EXCEPT ![p][fd] = 0])
exit_process(p) == Calls(p) /\ Drops([q \in DOMAIN fds \ {p} |-> fds[q]])
sys_dup(p, fd) ==
  /\ Calls(p) /\ IsOpen(p, fd)
  /\ fds' = Given(p, fds[p][fd]) /\ Fits(fds')
  /\ UNCHANGED <<listening, sockets, file, busy, panic, owed>>
(* fork: the child has the same files, not copies of them. *)
sys_fork(p, q) ==
  /\ Calls(p) /\ q \notin DOMAIN fds
  /\ fds' = Added(fds, q, fds[p])
  /\ Fits(fds')
  /\ UNCHANGED <<listening, sockets, file, busy, panic, owed>>

NetNext ==
  \/ \E p \in Pid :
       \/ \E c \in Conn : sys_connect(p, c)
       \/ \E port \in Port : sys_listen(p, port)
       \/ \E i \in 1..MaxPort : sys_accept(p, i)
       \/ \E fd \in 1..MaxFd : sys_read(p, fd) \/ sys_close(p, fd) \/ sys_dup(p, fd)
       \/ exit_process(p)
       \/ \E q \in Pid : sys_fork(p, q)
  \/ ReadReturns
  \/ \E pk \in Packet : \/ pk.kind = "syn" /\ ReceiveSyn(pk)
                        \/ pk.kind = "data" /\ ReceiveData(pk)

NetSpec == NetInit /\ [][NetNext]_net_vars

(* What is asked of the network for a call to come back: an accept meets a    *)
(* SYN of a connection that is not open, a read a packet of its connection.   *)
NewConn == {c \in Conn : c[2] = listening[busy.idx].port /\ GetSocket(c) = {}}
SynComes ==
  /\ busy # None /\ busy.call = "accept"
  /\ \E pk \in Syn : pk.conn \in NewConn /\ ReceiveSyn(pk)
DataComes ==
  /\ busy # None /\ busy.call = "read"
  /\ \E pk \in Packet \ Syn : pk.conn = file[busy.idx].conn /\ ReceiveData(pk)
NetFairSpec == /\ NetSpec /\ WF_net_vars(SynComes) /\ WF_net_vars(DataComes)
               /\ WF_net_vars(ReadReturns)
-----------------------------------------------------------------------------
NetTypeOK ==
  /\ listening \in Seq(Entry \cup {None}) /\ sockets \in Seq(Socket \cup {None})
  /\ DOMAIN file \subseteq File /\ file \in [DOMAIN file -> OpenFile]
  /\ owed \in [DOMAIN file -> Seq(Data \cup {Empty})]
  /\ DOMAIN fds \subseteq Pid /\ fds \in [DOMAIN fds -> Seq({0} \cup DOMAIN file)]
  /\ busy \in Waits \cup {None}
  /\ panic \in {"no", "socket_exists", "no_such_port"}

Of(kind) == {k \in DOMAIN file : file[k].kind = kind}

(* PortFd, TCP and UDP hold bare indices, and the `expect`s of the tables      *)
(* trust them: every entry in use belongs to exactly one open file, of that   *)
(* port or connection, and to no closed one; no two sockets have the same     *)
(* connection; and a task waits at a port only while its accept runs.         *)
SocketsOwned ==
  /\ NetTypeOK
  /\ \A i \in DOMAIN sockets :
       Cardinality({k \in Of("socket") : file[k].idx = i})
         = (IF sockets[i] = None THEN 0 ELSE 1)
  /\ \A k \in Of("socket") : /\ sockets[file[k].idx].conn = file[k].conn
                                   /\ GetSocket(file[k].conn) = {file[k].idx}
  /\ \A i \in DOMAIN listening :
       /\ Cardinality({k \in Of("port") : file[k].idx = i})
            = (IF listening[i] = None THEN 0 ELSE 1)
       /\ panic = "no" /\ listening[i] # None /\ listening[i].schedule # None =>
            busy = [call |-> "accept", proc |-> listening[i].schedule, idx |-> i]

(* Every packet that came for a connection while its file was open is read    *)
(* from that file, once, in the order of arrival, and no file reads what came *)
(* for another or for an earlier connection in the same slot.                 *)
DataDelivered ==
  \A k \in Of("socket") : sockets[file[k].idx].buffers = owed[k]

(* A call that waits comes back if the network brings what it waits for,      *)
(* except for an accept shadowed by an earlier entry of the same port at      *)
(* which nobody waits: check_accept finds that one and gives up.              *)
ShadowedAccept == \E j \in Acceptable(listening[busy.idx].port) : j < busy.idx
Answerable == busy # None /\ (busy.call = "accept" => ~ShadowedAccept /\ NewConn # {})
CallAnswered == Answerable ~> busy = None \/ panic # "no"
================================================================================
