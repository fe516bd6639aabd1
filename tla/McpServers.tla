------------------------------ MODULE McpServers ------------------------------
(* The connections of a process to MCP servers (tools/mcp/manager.py over      *)
(* adapter.py).  An owner task holds a transport and a session from entry to   *)
(* exit; a connection replaces its owner when a session has expired, and the   *)
(* manager replaces a connection when its server is configured anew.           *)
(*                                                                             *)
(* asyncio: what a task does between two awaits is one step.  A cancellation   *)
(* reaches a task at its await; joining an owner or a closer is shielded.      *)
EXTENDS Naturals, FiniteSets, Functions

CONSTANTS
    Server, McpTool, Prefix,
    Request,      \* operations of requests on the manager
    MaxConns,     \* bound: connections ever made
    MaxOwners,    \* bound: sessions ever opened
    MaxUpsets     \* bound: sessions that expire, owners that fail, cancellations, new tools

ASSUME McpAssumption == /\ MaxConns \in Nat \ {0} /\ MaxOwners \in Nat \ {0} /\ MaxUpsets \in Nat
                        /\ "nobody" \notin Server \cup Request /\ "closer" \notin Request

VARIABLES
    reg,          \* _connections
    tool_map,     \* _tool_to_server: a function from full names
    server_lock, refresh_lock,
    conn,         \* connections
    owner,        \* owner tasks, in the order they were created: [conn, pc]
    op,           \* operations: [pc, kind, srv, conn, prefix, failed, raising]
    offer,        \* the tools a server has
    expired,      \* sessions a server has reclaimed
    blamed,       \* history: sessions that were lost or failed a request
    upsets
mvars == <<reg, tool_map, server_lock, refresh_lock, conn, owner, op, offer, expired, blamed, upsets>>

Owner == 1 .. MaxOwners
Conn == 1 .. MaxConns    \* in the order they are made
NoOne == "nobody"
NoConn == [srv |-> NoOne, prefix |-> NoOne, owner |-> 0, session |-> 0, up |-> FALSE, ready |-> FALSE,
           stop |-> FALSE, closed |-> FALSE, tools |-> {}, lock |-> NoOne, closer |-> "none"]
NoOwner == [conn |-> 0, pc |-> "none"]
NoOp == [pc |-> "new", kind |-> "none", srv |-> NoOne, conn |-> 0, prefix |-> NoOne, failed |-> 0,
         raising |-> FALSE]
McpTypeOK ==
    /\ reg \in [Server -> Conn \cup {0}] /\ DOMAIN tool_map \subseteq Prefix \X McpTool
    /\ server_lock \in [Server -> Request \cup {NoOne}] /\ refresh_lock \in [Server -> Request \cup {NoOne}]
    /\ \A c \in Conn : conn[c].owner \in Owner \cup {0} /\ conn[c].tools \subseteq McpTool
                       /\ conn[c].lock \in Request \cup {NoOne, "closer"}
    /\ expired \subseteq Owner /\ blamed \subseteq Owner /\ upsets \in 0 .. MaxUpsets

Opened(s, p) == [NoConn EXCEPT !.srv = s, !.prefix = p]
Named(c, tools) == {<<conn[c].prefix, t>> : t \in tools}
(* A server that is connected.                                                 *)
McpInit ==
    /\ \E s \in Server, p \in Prefix, tools \in SUBSET McpTool :
         /\ reg = [o \in Server |-> IF o = s THEN 1 ELSE 0]
         /\ conn = [o \in Conn |-> IF o = 1 THEN [Opened(s, p) EXCEPT !.owner = 1, !.session = 1,
                         !.up = TRUE, !.ready = TRUE, !.tools = tools] ELSE NoConn]
         /\ owner = [o \in Owner |-> IF o = 1 THEN [conn |-> 1, pc |-> "open"] ELSE NoOwner]
         /\ tool_map = [n \in {<<p, t>> : t \in tools} |-> s]
         /\ offer = [o \in Server |-> IF o = s THEN tools ELSE McpTool]
    /\ server_lock = [s \in Server |-> NoOne] /\ refresh_lock = [s \in Server |-> NoOne]
    /\ op = [o \in Request |-> NoOp] /\ expired = {} /\ blamed = {} /\ upsets = 0

manager == <<reg, tool_map, server_lock, refresh_lock>>
Upset == upsets < MaxUpsets /\ upsets' = upsets + 1
At(x, pc) == op[x].pc = pc
Goes(x, pc) == op' = [op EXCEPT ![x].pc = pc]
Ends(x) == op' = [op EXCEPT ![x] = [NoOp EXCEPT !.pc = "over"]]
MyConn(x) == conn[op[x].conn]
Set(x, c) == conn' = [conn EXCEPT ![op[x].conn] = c]
Live(o) == owner[o].pc \in {"start", "init", "open"}

-----------------------------------------------------------------------------
(* The owner of a session.                                                     *)

Entered(o) ==
    /\ owner[o].pc = "start" /\ owner' = [owner EXCEPT ![o].pc = "init"]
    /\ conn' = [conn EXCEPT ![owner[o].conn].session = o]
    /\ UNCHANGED <<manager, op, offer, expired, blamed, upsets>>
Told(o) == LET c == conn[owner[o].conn] IN c.owner = o /\ c.stop
Ready(o) ==
    LET c == owner[o].conn IN
    /\ owner[o].pc = "init" /\ ~Told(o) /\ owner' = [owner EXCEPT ![o].pc = "open"]
    /\ conn' = [conn EXCEPT ![c].tools = offer[conn[c].srv], ![c].up = TRUE, ![c].ready = TRUE]
    /\ UNCHANGED <<manager, op, offer, expired, blamed, upsets>>
(* The contexts are left by the task that entered them: told to stop, or when  *)
(* the transport failed.                                                       *)
Exits(o) ==
    /\ Live(o)
    /\ owner' = [owner EXCEPT ![o].pc = "over"]
    /\ conn' = [conn EXCEPT ![owner[o].conn].up = FALSE, ![owner[o].conn].session = 0,
                            ![owner[o].conn].ready = TRUE]
    /\ UNCHANGED <<manager, op, offer, expired>>
Stops(o) == Exits(o) /\ Told(o) /\ UNCHANGED <<upsets, blamed>>
Fails(o) == Exits(o) /\ ~Told(o) /\ Upset /\ blamed' = blamed \cup {o}
Expires(o) == /\ owner[o].pc = "open" /\ o \notin expired /\ Upset
              /\ expired' = expired \cup {o} /\ blamed' = blamed \cup {o}
              /\ UNCHANGED <<manager, conn, owner, op, offer>>
Republish(s, tools) == /\ offer[s] # tools /\ Upset /\ offer' = [offer EXCEPT ![s] = tools]
                       /\ UNCHANGED <<manager, conn, owner, op, expired, blamed>>

(* _start_owner after its first cleanup: a new owner, awaited until ready.     *)
Unused == {o \in Owner : owner[o] = NoOwner}
NextOwner == CHOOSE o \in Unused : \A p \in Unused : o <= p
Unmade == {c \in Conn : conn[c] = NoConn}
NextConn == CHOOSE c \in Unmade : \A d \in Unmade : c <= d
Hires(c) == /\ Unused # {}
            /\ owner' = [owner EXCEPT ![NextOwner] = [conn |-> c, pc |-> "start"]]
Hired(r) == [r EXCEPT !.owner = NextOwner, !.ready = FALSE, !.stop = FALSE]
(* _cleanup: the owner is told to stop; when it has ended nothing is left.     *)
Dismissed(r) == [r EXCEPT !.stop = TRUE]
Joined(r) == r.owner \notin {o \in Owner : owner[o].pc # "over"}
Bare(r) == [r EXCEPT !.owner = 0, !.up = FALSE, !.session = 0]

-----------------------------------------------------------------------------
(* disconnect(): a task of its own, which nobody cancels.                      *)
Closing(r) == [r EXCEPT !.closed = TRUE, !.closer = "lock"]
Closer(c) ==
    /\ \/ /\ conn[c].closer = "lock" /\ conn[c].lock = NoOne
          /\ conn' = [conn EXCEPT ![c] = [Dismissed(@) EXCEPT !.lock = "closer", !.closer = "join"]]
       \/ /\ conn[c].closer = "join" /\ Joined(conn[c])
          /\ conn' = [conn EXCEPT ![c] = [Bare(@) EXCEPT !.tools = {}, !.lock = NoOne, !.closer = "over"]]
    /\ UNCHANGED <<manager, owner, op, offer, expired, blamed, upsets>>

-----------------------------------------------------------------------------
(* The manager.                                                                *)

Unmapped(s) == [n \in {n \in DOMAIN tool_map : tool_map[n] # s} |-> tool_map[n]]
Mapped(f, names, s) == [n \in DOMAIN f \cup names |-> IF n \in names THEN s ELSE f[n]]
(* _sync_tool_mappings of a connection that is still the server's.             *)
IsRegistered(c) == reg[conn[c].srv] = c
Synced(c) == IF IsRegistered(c) THEN Mapped(Unmapped(conn[c].srv), Named(c, conn[c].tools), conn[c].srv)
             ELSE tool_map

AskAdd(x, s, p) ==
    /\ At(x, "new") /\ op' = [op EXCEPT ![x].pc = "lock", ![x].kind = "add", ![x].srv = s, ![x].prefix = p]
    /\ UNCHANGED <<manager, conn, owner, offer, expired, blamed, upsets>>
AskRemove(x, s) ==
    /\ At(x, "new") /\ op' = [op EXCEPT ![x].pc = "lock", ![x].kind = "remove", ![x].srv = s]
    /\ UNCHANGED <<manager, conn, owner, offer, expired, blamed, upsets>>
(* The lock of the server; the old connection leaves the registry first.       *)
LockServer(x) ==
    LET s == op[x].srv IN
    /\ At(x, "lock") /\ server_lock[s] = NoOne /\ server_lock' = [server_lock EXCEPT ![s] = x]
    /\ IF reg[s] = 0 THEN Goes(x, "open") /\ UNCHANGED <<reg, tool_map, conn>>
       ELSE /\ conn' = [conn EXCEPT ![reg[s]] = Closing(@)]
            /\ reg' = [reg EXCEPT ![s] = 0] /\ tool_map' = Unmapped(s)
            /\ op' = [op EXCEPT ![x].pc = "close", ![x].conn = reg[s]]
    /\ UNCHANGED <<refresh_lock, owner, offer, expired, blamed, upsets>>
Unlock(x) == server_lock' = [server_lock EXCEPT ![op[x].srv] = NoOne]
(* The old connection is closed, or the new one that did not open.             *)
Closed(x) ==
    /\ At(x, "close") /\ MyConn(x).closer = "over"
    /\ IF op[x].raising THEN Ends(x) /\ Unlock(x)
       ELSE op' = [op EXCEPT ![x].pc = "open", ![x].conn = 0] /\ UNCHANGED server_lock
    /\ UNCHANGED <<reg, tool_map, refresh_lock, conn, owner, offer, expired, blamed, upsets>>
Removed(x) == /\ At(x, "open") /\ op[x].kind = "remove" /\ Ends(x) /\ Unlock(x)
              /\ UNCHANGED <<reg, tool_map, refresh_lock, conn, owner, offer, expired, blamed, upsets>>
Connect(x) ==
    LET c == NextConn IN
    /\ At(x, "open") /\ op[x].kind = "add" /\ Unmade # {} /\ Hires(c)
    /\ conn' = [conn EXCEPT ![c] = [Hired(Opened(op[x].srv, op[x].prefix)) EXCEPT !.lock = x]]
    /\ op' = [op EXCEPT ![x].pc = "ready", ![x].conn = c]
    /\ UNCHANGED <<manager, offer, expired, blamed, upsets>>
Register(x) ==
    LET s == op[x].srv c == op[x].conn IN
    /\ At(x, "ready") /\ op[x].kind = "add" /\ conn[c].up
    /\ reg' = [reg EXCEPT ![s] = c] /\ tool_map' = Mapped(tool_map, Named(c, conn[c].tools), s)
    /\ conn' = [conn EXCEPT ![c].lock = NoOne] /\ Ends(x) /\ Unlock(x)
    /\ UNCHANGED <<refresh_lock, owner, offer, expired, blamed, upsets>>

-----------------------------------------------------------------------------
(* A call of a tool.                                                           *)

CallTool(x, n) ==
    /\ At(x, "new") /\ n \in DOMAIN tool_map
    /\ LET c == reg[tool_map[n]] IN
       IF c # 0 /\ conn[c].up
       THEN op' = [op EXCEPT ![x].pc = "sent", ![x].kind = "call", ![x].conn = c, ![x].failed = conn[c].session]
       ELSE Ends(x)
    /\ UNCHANGED <<manager, conn, owner, offer, expired, blamed, upsets>>
(* However it ends, the manager takes over the tools of the connection.        *)
CallOver(x) == Ends(x) /\ tool_map' = Synced(op[x].conn)
Answered(x) ==
    /\ op[x].pc \in {"sent", "again"} /\ CallOver(x)
    /\ UNCHANGED <<reg, server_lock, refresh_lock, conn, owner, offer, expired, blamed, upsets>>
(* The server has reclaimed the session, or the network failed.                *)
SessionFails(x) ==
    /\ At(x, "sent") /\ Goes(x, "relock")
    /\ \/ op[x].failed \in expired /\ UNCHANGED <<blamed, upsets>>
       \/ op[x].failed \notin expired /\ Upset /\ blamed' = blamed \cup {op[x].failed}
    /\ UNCHANGED <<manager, conn, owner, offer, expired>>
(* _reconnect, under the lock of the connection: not for one that was closed,  *)
(* nor when another call has replaced the session.                             *)
ReplacedBug(x) == FALSE
Replaced(x) == MyConn(x).up /\ MyConn(x).session # op[x].failed
Reconnect(x) ==
    /\ At(x, "relock") /\ MyConn(x).lock = NoOne
    /\ IF MyConn(x).closed THEN CallOver(x) /\ UNCHANGED conn
       ELSE IF Replaced(x) THEN Goes(x, "again") /\ UNCHANGED <<conn, tool_map>>
       ELSE /\ Set(x, [Dismissed(MyConn(x)) EXCEPT !.lock = x]) /\ Goes(x, "join")
            /\ UNCHANGED tool_map
    /\ UNCHANGED <<reg, server_lock, refresh_lock, owner, offer, expired, blamed, upsets>>
Rehire(x) ==
    /\ At(x, "join") /\ Joined(MyConn(x))
    /\ IF op[x].raising
       THEN Set(x, [Bare(MyConn(x)) EXCEPT !.lock = NoOne]) /\ CallOver(x) /\ UNCHANGED owner
       ELSE /\ Hires(op[x].conn) /\ Set(x, Hired(Bare(MyConn(x)))) /\ Goes(x, "ready")
            /\ UNCHANGED tool_map
    /\ UNCHANGED <<reg, server_lock, refresh_lock, offer, expired, blamed, upsets>>
Reconnected(x) ==
    /\ At(x, "ready") /\ op[x].kind = "call" /\ MyConn(x).up
    /\ Set(x, [MyConn(x) EXCEPT !.lock = NoOne]) /\ Goes(x, "again")
    /\ UNCHANGED <<manager, owner, offer, expired, blamed, upsets>>

(* A session that did not open, for a call or a new connection, is cleaned up; *)
(* the new connection is closed then.                                          *)
NotOpened(x) ==
    /\ At(x, "ready") /\ MyConn(x).ready /\ ~MyConn(x).up
    /\ Set(x, Dismissed(MyConn(x))) /\ Goes(x, "fail")
    /\ UNCHANGED <<manager, owner, offer, expired, blamed, upsets>>
CleanedUp(x) ==
    LET r == [Bare(MyConn(x)) EXCEPT !.lock = NoOne] IN
    /\ At(x, "fail") /\ Joined(MyConn(x))
    /\ IF op[x].kind = "call" THEN Set(x, r) /\ CallOver(x)
       ELSE /\ Set(x, Closing(r)) /\ UNCHANGED tool_map
            /\ op' = [op EXCEPT ![x].pc = "close", ![x].raising = TRUE]
    /\ UNCHANGED <<reg, server_lock, refresh_lock, owner, offer, expired, blamed, upsets>>

-----------------------------------------------------------------------------
(* A refresh of the tools on the session there is.                             *)

AskRefresh(x, s) ==
    /\ At(x, "new") /\ op' = [op EXCEPT ![x].pc = "relist", ![x].kind = "refresh", ![x].srv = s]
    /\ UNCHANGED <<manager, conn, owner, offer, expired, blamed, upsets>>
RefreshEnds(x) == Ends(x) /\ refresh_lock' = [refresh_lock EXCEPT ![op[x].srv] = NoOne]
(* Not connected, or seen less than a minute ago.                              *)
LockRefresh(x) ==
    LET s == op[x].srv c == reg[s] IN
    /\ At(x, "relist") /\ refresh_lock[s] = NoOne
    /\ \/ RefreshEnds(x)
       \/ /\ c # 0 /\ conn[c].session # 0 /\ refresh_lock' = [refresh_lock EXCEPT ![s] = x]
          /\ op' = [op EXCEPT ![x].pc = "list", ![x].conn = c, ![x].failed = conn[c].session]
    /\ UNCHANGED <<reg, tool_map, server_lock, conn, owner, offer, expired, blamed, upsets>>
Listed(x) ==
    LET c == op[x].conn tools == offer[conn[c].srv] IN
    /\ At(x, "list") /\ Live(op[x].failed) /\ op[x].failed \notin expired /\ RefreshEnds(x)
    /\ conn' = [conn EXCEPT ![c].tools = tools]
    /\ tool_map' = IF IsRegistered(c) THEN Mapped(Unmapped(op[x].srv), Named(c, tools), op[x].srv)
                   ELSE tool_map
    /\ UNCHANGED <<reg, server_lock, owner, offer, expired, blamed, upsets>>
NotListed(x) ==
    /\ At(x, "list") /\ ~(Live(op[x].failed) /\ op[x].failed \notin expired) /\ RefreshEnds(x)
    /\ UNCHANGED <<reg, tool_map, server_lock, conn, owner, offer, expired, blamed, upsets>>

-----------------------------------------------------------------------------
(* The request that runs an operation is cancelled, or its time is over.       *)
Cancelled(x) ==
    /\ Upset
    /\ CASE op[x].pc = "lock" -> Ends(x) /\ UNCHANGED <<tool_map, refresh_lock, conn, blamed>>
         [] op[x].pc \in {"sent", "again", "relock"} -> CallOver(x) /\ UNCHANGED <<refresh_lock, conn, blamed>>
         [] op[x].pc = "list" -> RefreshEnds(x) /\ UNCHANGED <<tool_map, conn, blamed>>
         [] op[x].pc \in {"close", "join"} -> /\ op' = [op EXCEPT ![x].raising = TRUE]
                                              /\ UNCHANGED <<tool_map, refresh_lock, conn, blamed>>
         [] op[x].pc = "ready" -> /\ Set(x, Dismissed(MyConn(x))) /\ Goes(x, "fail")
                                  /\ blamed' = blamed \cup {MyConn(x).owner}
                                  /\ UNCHANGED <<tool_map, refresh_lock>>
         [] OTHER -> FALSE
    /\ UNCHANGED <<reg, server_lock, owner, offer, expired>>

Runs(x) == \/ LockServer(x) \/ Closed(x) \/ Removed(x) \/ Connect(x) \/ Register(x)
           \/ Reconnect(x) \/ Rehire(x) \/ Reconnected(x) \/ NotOpened(x) \/ CleanedUp(x)
           \/ LockRefresh(x) \/ Listed(x) \/ NotListed(x)
McpNext ==
    \/ \E x \in Request : Runs(x) \/ Answered(x) \/ SessionFails(x) \/ Cancelled(x)
    \/ \E x \in Request, s \in Server : AskRemove(x, s) \/ AskRefresh(x, s) \/ \E p \in Prefix : AskAdd(x, s, p)
    \/ \E x \in Request, n \in DOMAIN tool_map : CallTool(x, n)
    \/ \E o \in Owner : Entered(o) \/ Ready(o) \/ Stops(o) \/ Fails(o) \/ Expires(o)
    \/ \E s \in Server, tools \in SUBSET McpTool : Republish(s, tools)
    \/ \E c \in Conn : Closer(c)
McpSpec == McpInit /\ [][McpNext]_mvars
(* Tasks run, what is told to stop stops, and a refresh has a time limit; a    *)
(* server may never answer a call, nor open a session.                         *)
McpFairness == /\ \A x \in Request : WF_mvars(Runs(x))
               /\ \A o \in Owner : WF_mvars(Stops(o))
               /\ \A c \in Conn : WF_mvars(Closer(c))

-----------------------------------------------------------------------------
(* No session is without a manager: the connection knows its owner, and a      *)
(* connection with one is its server's, or is being opened or closed, whatever *)
(* is replaced, cancelled, failing or reconnected at the same time.            *)
Managed(c) == \/ reg[conn[c].srv] = c \/ conn[c].closer \in {"lock", "join"}
              \/ \E x \in Request : op[x].kind = "add" /\ op[x].conn = c /\ op[x].pc \in {"ready", "fail"}
NoOrphan == \A o \in Owner : Live(o) => conn[owner[o].conn].owner = o /\ Managed(owner[o].conn)

(* Calls that fail on one session share one reconnection: a session is given   *)
(* up only when it was lost or failed a request itself.                        *)
SharedReconnect == \A o \in Owner :
    owner[o].pc = "over" => o \in blamed \/ conn[owner[o].conn].closed

(* A name leads to a server that is connected, and when nothing is under way   *)
(* to a tool that its connection has.                                          *)
InUse(c) == \E x \in Request : op[x].conn = c
NamesLead == \A n \in DOMAIN tool_map :
    LET c == reg[tool_map[n]] IN c # 0 /\ (~InUse(c) => n \in Named(c, conn[c].tools))

McpWhole == NoOrphan /\ SharedReconnect /\ NamesLead

(* Every operation ends and frees its locks, also when the connection it waits *)
(* for is closed, replaced or fails to open, unless a server owes an answer:   *)
(* operations never wait for each other alone.                                 *)
AsksServer(x) == op[x].pc \in {"sent", "again"} \/ (At(x, "ready") /\ ~MyConn(x).ready)
OperationsEnd == \A x \in Request :
    op[x].pc # "new" ~> (op[x].pc = "over" \/ \E y \in Request : AsksServer(y))

-----------------------------------------------------------------------------
(* What the code does not keep.                                                *)

(* A refresh makes a connection work again: after a reconnection that failed   *)
(* it has no session to ask, and neither calls nor refreshes open one.         *)
RefreshRevives == \A s \in Server : reg[s] # 0 /\ ~InUse(reg[s]) => conn[reg[s]].up
(* A tool that is listed can be called: of two servers with one name the       *)
(* removal of either takes the name away.                                      *)
ListedIsCallable == \A s \in Server : reg[s] # 0 => Named(reg[s], conn[reg[s]].tools) \subseteq DOMAIN tool_map
=============================================================================
