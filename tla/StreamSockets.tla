---------------------------- MODULE StreamSockets ---------------------------
(***************************************************************************)
(* The messaging layer of a coordinator (src/platforms/unix/): the adapter *)
(* (stream_sockets_adapter.h), its channels (stream_sockets_channel.h) and *)
(* the TCP server that accepts connections (async_tcp_server.cc,           *)
(* tcp_connection.cc).                                                     *)
(*                                                                         *)
(* The main thread keeps one asynchronous receive outstanding per channel. *)
(* The receive goes through stages on the I/O thread of the channel: the   *)
(* size, the body, the coordinator's handler, and the clean-up that lets   *)
(* the main thread start the next one.  async_recv_lock_ is held from the  *)
(* start of a receive to its end, that is while stage is neither "none"    *)
(* nor "dead".                                                             *)
(*                                                                         *)
(* One channel is the coordinator's own connection to its parent, all      *)
(* others wrap connections that the server accepted.  The steps below are  *)
(* guarded by the mutexes they take; "blocked" is the channel for whose    *)
(* lock the main thread waits while it holds both mutexes of the adapter.  *)
(***************************************************************************)
EXTENDS Sequences, Functions, TLC

CONSTANTS
  Channels,
  Delegator,    \* the channel to the parent coordinator
  NoChannel,
  Names         \* the endpoint names

NoName == "no endpoint"
Torn == [type |-> "torn"]   \* a size preamble whose message never follows

VARIABLES
  wire,         \* what a channel's peer has sent and the coordinator not read
  conn,         \* the state of a channel's TCP connection
  endpoint,     \* the address of the peer
  stage,        \* the stage of the outstanding receive
  channelMap,   \* endpoint_channel_map_
  envelopes,    \* the channels in channel_recv_envelopes_
  connections,  \* the endpoints in endpoint_connection_map_
  blocked       \* the channel on which the main thread blocks in RecvA

socketVars == <<wire, conn, endpoint, stage, channelMap, envelopes, connections, blocked>>

(* The coordinator has connected to its parent under the name uri. *)
SocketsInit(uri, address) ==
  /\ wire = [c \in Channels |-> <<>>]
  /\ conn = [c \in Channels |-> IF c = Delegator THEN "open" ELSE "none"]
  /\ endpoint = [c \in Channels |-> IF c = Delegator THEN address ELSE NoName]
  /\ stage = [c \in Channels |-> IF c = Delegator THEN "none" ELSE "new"]
  /\ channelMap = uri :> Delegator
  /\ envelopes = {}
  /\ connections = {}
  /\ blocked = NoChannel

MutexesFree == blocked = NoChannel

(***************************************************************************)
(* RemoteEndpointString: the peer's address as long as the socket knows    *)
(* it.  After a reset a channel to the parent falls back on the name it    *)
(* connected to, an accepted one has no name at all.                       *)
(***************************************************************************)
RemoteEndpointString(c, uri) ==
  CASE conn[c] # "reset" -> endpoint[c]
    [] c = Delegator     -> uri
    [] OTHER             -> NoName

-----------------------------------------------------------------------------
(* The main thread. *)

(* AwaitNextMessage, for a channel without an envelope: RecvA takes the     *)
(* channel's lock, which the previous receive may not have released yet.    *)
AwaitNextMessage(c) ==
  /\ MutexesFree
  /\ c \in Range(channelMap) \ envelopes
  /\ envelopes' = envelopes \cup {c}
  /\ IF stage[c] = "none"
     THEN stage' = [stage EXCEPT ![c] = "size"] /\ UNCHANGED blocked
     ELSE blocked' = c /\ UNCHANGED stage
  /\ UNCHANGED <<wire, conn, endpoint, channelMap, connections>>

RecvA ==
  /\ blocked # NoChannel
  /\ stage[blocked] = "none"
  /\ stage' = [stage EXCEPT ![blocked] = "size"]
  /\ blocked' = NoChannel
  /\ UNCHANGED <<wire, conn, endpoint, channelMap, envelopes, connections>>

-----------------------------------------------------------------------------
(* The I/O threads. *)

(* HandleAccept and AddChannelForConnection: TCPConnection::Start throws    *)
(* when the peer has gone again, and the endpoint must be a new one.        *)
AcceptFails(c) ==
  CASE conn[c] = "reset"            -> "TCPConnection_Start"
    [] endpoint[c] \in connections  -> "HandleAccept_endpoint"
    [] OTHER                        -> "none"

HandleAccept(c) ==
  /\ MutexesFree
  /\ stage[c] = "new"
  /\ stage' = [stage EXCEPT ![c] = "none"]
  /\ connections' = connections \cup {endpoint[c]}
  /\ channelMap' = channelMap @@ (endpoint[c] :> c)
  /\ UNCHANGED <<wire, conn, endpoint, envelopes, blocked>>

RecvASecondStage(c) ==
  /\ stage[c] = "size"
  /\ wire[c] # <<>>
  /\ stage' = [stage EXCEPT ![c] = "body"]
  /\ UNCHANGED <<wire, conn, endpoint, channelMap, envelopes, connections, blocked>>

(* RecvAThirdStage up to the call of the coordinator's handler. *)
RecvAThirdStage(c) ==
  /\ stage[c] = "body"
  /\ Head(wire[c]).type # "torn"
  /\ wire' = [wire EXCEPT ![c] = Tail(@)]
  /\ stage' = [stage EXCEPT ![c] = "handling"]
  /\ UNCHANGED <<conn, endpoint, channelMap, envelopes, connections, blocked>>

ReceiveFails(c) ==
  /\ conn[c] \in {"eof", "reset"}
  /\ \/ stage[c] = "size" /\ wire[c] = <<>>
     \/ stage[c] = "body" /\ Head(wire[c]).type = "torn"

(***************************************************************************)
(* The error path of HandleAsyncMessageRecv: the channel and its envelope  *)
(* leave the maps if the channel still has a name, and the connection is   *)
(* closed in either case.                                                  *)
(***************************************************************************)
HandleReceiveError(c, name) ==
  /\ IF name = NoName
     THEN UNCHANGED <<channelMap, envelopes>>
     ELSE /\ MutexesFree
          /\ channelMap' = Restrict(channelMap, DOMAIN channelMap \ {name})
          /\ envelopes' = envelopes \ {c}
  /\ stage' = [stage EXCEPT ![c] = "dead"]
  /\ conn' = [conn EXCEPT ![c] = "closed"]
  /\ connections' = connections \ {name}
  /\ UNCHANGED <<wire, endpoint, blocked>>

(* The handler has returned: HandleAsyncMessageRecv drops the envelope, ... *)
EraseEnvelope(c) ==
  /\ MutexesFree
  /\ stage[c] = "handling"
  /\ envelopes' = envelopes \ {c}
  /\ stage' = [stage EXCEPT ![c] = "unlocking"]
  /\ UNCHANGED <<wire, conn, endpoint, channelMap, connections, blocked>>

(* ... and RecvAThirdStage, into which it returns, drops the lock. *)
UnlockReceive(c) ==
  /\ stage[c] = "unlocking"
  /\ stage' = [stage EXCEPT ![c] = "none"]
  /\ UNCHANGED <<wire, conn, endpoint, channelMap, envelopes, connections, blocked>>

-----------------------------------------------------------------------------
(* The peers. *)

Connect(c, name) ==
  /\ conn[c] = "none"
  /\ conn' = [conn EXCEPT ![c] = "open"]
  /\ endpoint' = [endpoint EXCEPT ![c] = name]
  /\ UNCHANGED <<wire, stage, channelMap, envelopes, connections, blocked>>

(* SendS at the far end. *)
PeerSends(c, m) ==
  /\ conn[c] = "open"
  /\ wire' = [wire EXCEPT ![c] = Append(@, m)]
  /\ UNCHANGED <<conn, endpoint, stage, channelMap, envelopes, connections, blocked>>

(* The peer closes the connection or goes away, perhaps in the middle of a  *)
(* message.                                                                *)
PeerLeaves(c, how, rest) ==
  /\ conn' = [conn EXCEPT ![c] = IF @ = "open" THEN how ELSE @]
  /\ wire' = [wire EXCEPT ![c] = IF conn[c] = "open" THEN @ \o rest ELSE @]
  /\ UNCHANGED <<endpoint, stage, channelMap, envelopes, connections, blocked>>

=============================================================================
