---------------------------- MODULE SessionCalls ----------------------------
(***************************************************************************)
(* One onebot.Session at work (pkg/onebot/server.go): goroutines of the    *)
(* bridge make calls over its WebSocket, readLoop hands the responses back *)
(* to them by their echo, and the NapCatQQ peer answers in any order, more *)
(* than once, or never.                                                    *)
(*                                                                         *)
(* A call is identified here by <<c, n>>, the n-th call of goroutine c.    *)
(* That identity travels with the request and its response and stands for  *)
(* their contents: it tells whose answer a caller is given.  The code sees *)
(* only the echo.  Whether the answer carries data or an error is left out. *)
(***************************************************************************)
EXTENDS Integers, Sequences

CONSTANTS
  Callers,    \* the goroutines of the bridge that use the session
  Timed,      \* those whose context has a deadline
  None,       \* nobody, nothing
  MaxCalls,   \* bound: calls a goroutine makes
  MaxEvents,  \* bound: events the peer sends
  WireCap     \* what the connection buffers in each direction

ASSUME CallsAssumption ==
  /\ Timed \subseteq Callers
  /\ MaxCalls \in Nat
  /\ MaxEvents \in Nat
  /\ WireCap \in Nat

Calls == Callers \X (1..MaxCalls)

(* A request, and equally the response to it. *)
Requests == [echo: Nat, call: Calls]

(* A response on its way from readLoop to the channel of call `to'. *)
Handing == [to: Calls, resp: Requests]

ASSUME NoneAssumption == None \notin Callers \cup Calls \cup Requests \cup Handing

Event == [event |-> TRUE]

VARIABLES
  conn,      \* the WebSocket: "up", "lost" (the peer is gone), "down" (closed)
  closed,    \* Session.closed
  seq,       \* Session.seq
  pending,   \* Session.pending: the echo and the call that waits for it
  chan,      \* the response channels, of capacity 1: call -> response or None
  writer,    \* the goroutine that holds writeMu
  pc,        \* where each caller is: "idle", "lock", "write" or "wait"
  nth,       \* how many calls each caller has made
  echo,      \* the echo of its current call
  out,       \* the response its last call returned with, None if it failed
  reader,    \* readLoop: "read", "send" or "stopped"
  handing,   \* the response readLoop is sending to a channel
  toPeer,    \* requests on their way
  toBridge,  \* responses and events on their way
  received,  \* the requests the peer has read
  events,    \* events the peer has sent
  handled    \* events readLoop has given to the handler

callerVars == <<seq, writer, pc, nth, echo, out>>
readerVars == <<reader, handing, handled>>
peerVars   == <<received, events>>
vars == <<conn, closed, pending, chan, callerVars, readerVars, peerVars, toPeer,
          toBridge>>

Current(c) == <<c, nth[c]>>

TypeOK ==
  /\ conn \in {"up", "lost", "down"}
  /\ closed \in BOOLEAN
  /\ seq \in Nat
  /\ pending \subseteq Requests
  /\ chan \in [Calls -> Requests \cup {None}]
  /\ writer \in Callers \cup {None}
  /\ pc \in [Callers -> {"idle", "lock", "write", "wait"}]
  /\ nth \in [Callers -> 0..MaxCalls]
  /\ echo \in [Callers -> Nat]
  /\ out \in [Callers -> Requests \cup {None}]
  /\ reader \in {"read", "send", "stopped"}
  /\ handing \in Handing \cup {None}
  /\ reader = "send" => handing # None
  /\ toPeer \in Seq(Requests)
  /\ toBridge \in Seq(Requests \cup {Event})
  /\ received \subseteq Requests
  /\ events \in 0..MaxEvents
  /\ handled \in Nat

Init ==
  /\ conn = "up"
  /\ closed = FALSE
  /\ seq = 0
  /\ pending = {}
  /\ chan = [k \in Calls |-> None]
  /\ writer = None
  /\ pc = [c \in Callers |-> "idle"]
  /\ nth = [c \in Callers |-> 0]
  /\ echo = [c \in Callers |-> 0]
  /\ out = [c \in Callers |-> None]
  /\ reader = "read"
  /\ handing = None
  /\ toPeer = <<>>
  /\ toBridge = <<>>
  /\ received = {}
  /\ events = 0
  /\ handled = 0

-----------------------------------------------------------------------------
(* Session.Call. *)

(* Fault: the echo is the action alone, without the session's counter. *)
EchoWithoutSeq(n) == 0

(* The echo of the call that drew n from the counter.  Session.seq makes   *)
(* it different from every other echo of the session, whatever the action  *)
(* in front of the counter.                                                *)
Echo(n) == n

(* The closed check passes, the counter is drawn, and the response channel *)
(* is stored under the echo.                                               *)
CallBegin(c) ==
  /\ pc[c] = "idle"
  /\ nth[c] < MaxCalls
  /\ ~closed
  /\ seq' = seq + 1
  /\ nth' = [nth EXCEPT ![c] = @ + 1]
  /\ echo' = [echo EXCEPT ![c] = Echo(seq + 1)]
  /\ pending' = {p \in pending : p.echo # Echo(seq + 1)}
                   \cup {[echo |-> Echo(seq + 1), call |-> <<c, nth[c] + 1>>]}
  /\ out' = [out EXCEPT ![c] = None]
  /\ pc' = [pc EXCEPT ![c] = "lock"]
  /\ UNCHANGED <<conn, closed, chan, writer, readerVars, peerVars, toPeer, toBridge>>

(* The call returns; its deferred Delete runs. *)
CallReturn(c, result) ==
  /\ pc' = [pc EXCEPT ![c] = "idle"]
  /\ out' = [out EXCEPT ![c] = result]
  /\ pending' = {p \in pending : p.echo # echo[c]}

(* writeMu.Lock() *)
CallLock(c) ==
  /\ pc[c] = "lock"
  /\ writer = None
  /\ writer' = c
  /\ pc' = [pc EXCEPT ![c] = "write"]
  /\ UNCHANGED <<conn, closed, pending, chan, seq, nth, echo, out, readerVars, peerVars,
                 toPeer, toBridge>>

(* WriteJSON has no deadline: it waits while the connection buffers no     *)
(* more.  What is written to a peer that is gone disappears.               *)
CallWrite(c) ==
  /\ pc[c] = "write"
  /\ \/ /\ conn = "up"
        /\ Len(toPeer) < WireCap
        /\ toPeer' = Append(toPeer, [echo |-> echo[c], call |-> Current(c)])
     \/ /\ conn = "lost"
        /\ UNCHANGED toPeer
  /\ writer' = None
  /\ pc' = [pc EXCEPT ![c] = "wait"]
  /\ UNCHANGED <<conn, closed, pending, chan, seq, nth, echo, out, readerVars, peerVars,
                 toBridge>>

(* Fault: a failed write returns with writeMu locked. *)
CallWriteFailLocked(c) ==
  /\ pc[c] = "write"
  /\ conn # "up"
  /\ CallReturn(c, None)
  /\ UNCHANGED <<conn, closed, chan, writer, seq, nth, echo, readerVars, peerVars,
                 toPeer, toBridge>>

(* WriteJSON fails: the connection is closed, or known to be lost. *)
CallWriteFail(c) ==
  /\ pc[c] = "write"
  /\ conn # "up"
  /\ writer' = None
  /\ CallReturn(c, None)
  /\ UNCHANGED <<conn, closed, chan, seq, nth, echo, readerVars, peerVars, toPeer,
                 toBridge>>

(* Fault: the pending entry of a call that gives up is not deleted. *)
CallGiveUpKeeps(c) ==
  /\ c \in Timed
  /\ pc[c] = "wait"
  /\ pc' = [pc EXCEPT ![c] = "idle"]
  /\ out' = [out EXCEPT ![c] = None]
  /\ UNCHANGED <<conn, closed, pending, chan, seq, writer, nth, echo, readerVars, peerVars,
                 toPeer, toBridge>>

(* ctx.Done(): the deadline, which may pass at any time. *)
CallGiveUp(c) ==
  /\ c \in Timed
  /\ pc[c] = "wait"
  /\ CallReturn(c, None)
  /\ UNCHANGED <<conn, closed, chan, seq, writer, nth, echo, readerVars, peerVars, toPeer,
                 toBridge>>

(* The response arrives on the call's channel. *)
CallAnswer(c) ==
  /\ pc[c] = "wait"
  /\ chan[Current(c)] # None
  /\ CallReturn(c, chan[Current(c)])
  /\ chan' = [chan EXCEPT ![Current(c)] = None]
  /\ UNCHANGED <<conn, closed, seq, writer, nth, echo, readerVars, peerVars, toPeer,
                 toBridge>>

-----------------------------------------------------------------------------
(* readLoop. *)

(* Packets that have arrived can still be read after the connection is     *)
(* closed.                                                                 *)
ReadPacket ==
  /\ reader = "read"
  /\ toBridge # <<>>
  /\ toBridge' = Tail(toBridge)

(* Fault: the pending call is looked up but not taken out. *)
ReadResponseKeeps ==
  /\ ReadPacket
  /\ Head(toBridge) # Event
  /\ \/ \E p \in pending :
          /\ p.echo = Head(toBridge).echo
          /\ reader' = "send"
          /\ handing' = [to |-> p.call, resp |-> Head(toBridge)]
     \/ /\ \A p \in pending : p.echo # Head(toBridge).echo
        /\ UNCHANGED <<reader, handing>>
  /\ UNCHANGED <<conn, closed, pending, chan, callerVars, handled, peerVars, toPeer>>

(* Fault: the response is sent on whatever LoadAndDelete returns. *)
ReadResponseUnchecked ==
  /\ ReadPacket
  /\ Head(toBridge) # Event
  /\ reader' = "send"
  /\ \/ \E p \in pending :
          /\ p.echo = Head(toBridge).echo
          /\ pending' = pending \ {p}
          /\ handing' = [to |-> p.call, resp |-> Head(toBridge)]
     \/ /\ \A p \in pending : p.echo # Head(toBridge).echo
        /\ handing' = None
        /\ UNCHANGED pending
  /\ UNCHANGED <<conn, closed, chan, callerVars, handled, peerVars, toPeer>>

(* A packet with an echo: LoadAndDelete of the pending call.  A response   *)
(* nobody waits for is dropped.                                            *)
ReadResponse ==
  /\ ReadPacket
  /\ Head(toBridge) # Event
  /\ \/ \E p \in pending :
          /\ p.echo = Head(toBridge).echo
          /\ pending' = pending \ {p}
          /\ reader' = "send"
          /\ handing' = [to |-> p.call, resp |-> Head(toBridge)]
     \/ /\ \A p \in pending : p.echo # Head(toBridge).echo
        /\ UNCHANGED <<pending, reader, handing>>
  /\ UNCHANGED <<conn, closed, chan, callerVars, handled, peerVars, toPeer>>

(* The send on the channel, which blocks readLoop while it is full. *)
ReadSend ==
  /\ reader = "send"
  /\ chan[handing.to] = None
  /\ chan' = [chan EXCEPT ![handing.to] = handing.resp]
  /\ reader' = "read"
  /\ handing' = None
  /\ UNCHANGED <<conn, closed, pending, callerVars, handled, peerVars, toPeer, toBridge>>

(* A packet without one: an event, handled before the next packet is read. *)
ReadEvent ==
  /\ ReadPacket
  /\ Head(toBridge) = Event
  /\ handled' = handled + 1
  /\ UNCHANGED <<conn, closed, pending, chan, callerVars, reader, handing, peerVars, toPeer>>

(* ReadMessage fails: at any time after the connection was closed here,    *)
(* and when the peer is gone, after what had arrived.  The loop ends and   *)
(* closes the session.                                                     *)
ReadFail ==
  /\ reader = "read"
  /\ conn = "down" \/ (conn = "lost" /\ toBridge = <<>>)
  /\ reader' = "stopped"
  /\ closed' = TRUE
  /\ conn' = "down"
  /\ UNCHANGED <<pending, chan, callerVars, handing, handled, peerVars, toPeer, toBridge>>

-----------------------------------------------------------------------------
(* The rest of the world. *)

(* Another goroutine closes the session: see SessionRegistry. *)
Close ==
  /\ ~closed
  /\ closed' = TRUE
  /\ conn' = "down"
  /\ UNCHANGED <<pending, chan, callerVars, readerVars, peerVars, toPeer, toBridge>>

ConnLost ==
  /\ conn = "up"
  /\ conn' = "lost"
  /\ UNCHANGED <<closed, pending, chan, callerVars, readerVars, peerVars, toPeer, toBridge>>

PeerReceive ==
  /\ conn = "up"
  /\ toPeer # <<>>
  /\ received' = received \cup {Head(toPeer)}
  /\ toPeer' = Tail(toPeer)
  /\ UNCHANGED <<conn, closed, pending, chan, callerVars, readerVars, events, toBridge>>

(* The peer answers a request it has received: in any order, late, twice.  *)
PeerAnswer ==
  /\ conn = "up"
  /\ Len(toBridge) < WireCap
  /\ \E r \in received : toBridge' = Append(toBridge, r)
  /\ UNCHANGED <<conn, closed, pending, chan, callerVars, readerVars, peerVars, toPeer>>

PeerEvent ==
  /\ conn = "up"
  /\ Len(toBridge) < WireCap
  /\ events < MaxEvents
  /\ events' = events + 1
  /\ toBridge' = Append(toBridge, Event)
  /\ UNCHANGED <<conn, closed, pending, chan, callerVars, readerVars, received, toPeer>>

-----------------------------------------------------------------------------
CallStep(c) ==
  CallLock(c) \/ CallWrite(c) \/ CallWriteFail(c) \/ CallGiveUp(c) \/ CallAnswer(c)

ReadStep == ReadResponse \/ ReadSend \/ ReadEvent \/ ReadFail

Next ==
  \/ \E c \in Callers : CallBegin(c) \/ CallStep(c)
  \/ ReadStep
  \/ Close \/ ConnLost \/ PeerReceive \/ PeerAnswer \/ PeerEvent

Spec == Init /\ [][Next]_vars

(* Goroutines that can run do run; a mutex that is freed again and again   *)
(* is granted to each waiter in the end (Go mutexes starve nobody); the    *)
(* peer takes packets off the connection, but need not answer any.         *)
Fairness ==
  /\ \A c \in Callers :
       /\ WF_vars(CallWrite(c) \/ CallWriteFail(c) \/ CallGiveUp(c) \/ CallAnswer(c))
       /\ SF_vars(CallLock(c))
  /\ WF_vars(ReadStep)
  /\ WF_vars(PeerReceive)

FairSpec == Spec /\ Fairness

-----------------------------------------------------------------------------
(* Properties. *)

(* A call that returns a response returns the answer to its own request,   *)
(* however late, often or disordered the peer answers, and whatever calls  *)
(* the goroutine gave up before (Call's echo and readLoop's lookup of it). *)
AnswersOwnCall ==
  \A c \in Callers : out[c] # None => out[c].call = Current(c)

(* The send of a response never blocks readLoop, which would stop every    *)
(* later response and event of the account: the channel has room, though   *)
(* nobody may be receiving from it any more.                               *)
ReaderNeverBlocks ==
  reader = "send" => chan[handing.to] = None

(* A call that is over leaves nothing behind: every pending entry belongs  *)
(* to a call under way (Call's deferred Delete against LoadAndDelete).     *)
NoPendingLeak ==
  \A p \in pending :
    \E c \in Callers : pc[c] # "idle" /\ p.call = Current(c) /\ p.echo = echo[c]

(* A call with a deadline returns. *)
TimedCallsReturn ==
  \A c \in Timed : pc[c] # "idle" ~> pc[c] = "idle"

(* What a goroutine sees of the session. *)
OpenCall   == [c \in Callers |-> IF pc[c] = "idle" THEN None ELSE Current(c)]
LastAnswer == [c \in Callers |-> IF out[c] = None THEN None ELSE out[c].call]
Asked      == {k \in Calls : k[2] <= nth[k[1]]}
Executed   == {r.call : r \in received}

Contract == INSTANCE CallContract
              WITH open <- OpenCall, answer <- LastAnswer, asked <- Asked, executed <- Executed

(* Echoes, channels, locks, a connection that may break and a peer that    *)
(* answers as it likes come to what CallContract promises: a call that     *)
(* succeeds was executed, and its answer is what its caller gets.          *)
ImplementsCallContract == Contract!Spec
=============================================================================
