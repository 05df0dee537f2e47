-------------------------- MODULE SessionCalls_proof --------------------------
(***************************************************************************)
(* Theorems about SessionCalls, for any number of callers, calls, events   *)
(* and buffered packets: callers get their own answers, readLoop is never  *)
(* blocked by a response, no pending entry is left behind, WriteJSON has   *)
(* one caller at a time, and the session implements CallContract.          *)
(***************************************************************************)
EXTENDS SessionCalls, TLAPS

-----------------------------------------------------------------------------
(* The inductive invariant, in named parts. *)

(* A call under way has drawn an echo of its own from the counter. *)
ActiveCalls ==
  /\ \A c \in Callers : pc[c] # "idle" => nth[c] >= 1 /\ echo[c] <= seq
  /\ \A c, d \in Callers :
       pc[c] # "idle" /\ pc[d] # "idle" /\ echo[c] = echo[d] => c = d

(* Two goroutines are never inside WriteJSON at once: gorilla's Conn       *)
(* allows one concurrent writer.                                           *)
OneWriter ==
  \A c, d \in Callers : pc[c] = "write" /\ pc[d] = "write" => c = d

(* A caller inside WriteJSON holds writeMu. *)
OneWriterHolds == \A c \in Callers : pc[c] = "write" => writer = c

(* A request or response r was made by a call that has begun; if its echo  *)
(* is that of a call under way, it is that call's own.                     *)
IsOwn(r) ==
  /\ r.call[2] <= nth[r.call[1]]
  /\ r.echo <= seq
  /\ \A c \in Callers : pc[c] # "idle" /\ echo[c] = r.echo => r.call = Current(c)

FlightIsOwn ==
  /\ \A i \in 1..Len(toPeer) : IsOwn(toPeer[i])
  /\ \A r \in received : IsOwn(r)
  /\ \A i \in 1..Len(toBridge) : toBridge[i] # Event => IsOwn(toBridge[i])

(* The response readLoop hands on goes to the channel of its own call,     *)
(* which is no longer pending, and whose channel is empty.                 *)
HandingIsOwn ==
  reader = "send" =>
    /\ handing \in Handing
    /\ handing.resp.call = handing.to
    /\ handing.to[2] <= nth[handing.to[1]]
    /\ \A p \in pending : p.call # handing.to
    /\ chan[handing.to] = None

(* A channel holds the response to its own call, begun and no longer       *)
(* pending.                                                                *)
ChannelsAreOwn ==
  \A k \in Calls : chan[k] # None =>
    /\ chan[k].call = k
    /\ k[2] <= nth[k[1]]
    /\ \A p \in pending : p.call # k

IInv ==
  /\ TypeOK
  /\ ActiveCalls
  /\ OneWriterHolds
  /\ NoPendingLeak
  /\ FlightIsOwn
  /\ HandingIsOwn
  /\ ChannelsAreOwn
  /\ AnswersOwnCall

-----------------------------------------------------------------------------
(* The initial states satisfy the inductive invariant. *)
LEMMA InitIInv == Init => IInv
<1> SUFFICES ASSUME Init PROVE IInv
  OBVIOUS
<1>1. /\ toPeer \in Seq(Requests)
      /\ toBridge \in Seq(Requests \cup {Event})
      /\ Len(toPeer) = 0 /\ Len(toBridge) = 0
  BY DEF Init
<1>2. TypeOK
  <2>1. nth \in [Callers -> 0..MaxCalls] /\ events \in 0..MaxEvents
    BY CallsAssumption DEF Init
  <2>2. chan \in [Calls -> Requests \cup {None}] /\ out \in [Callers -> Requests \cup {None}]
    BY DEF Init
  <2> QED
    BY <1>1, <2>1, <2>2 DEF Init, TypeOK
<1>3. FlightIsOwn
  BY <1>1 DEF Init, FlightIsOwn
<1> QED
  BY <1>2, <1>3 DEF Init, IInv, ActiveCalls, OneWriterHolds, NoPendingLeak, HandingIsOwn,
     ChannelsAreOwn, AnswersOwnCall

(* An event is not a response. *)
LEMMA EventIsNoRequest == Event \notin Requests
BY DEF Event, Requests

(* What Head, Tail and Append do to a channel. *)
LEMMA TailFacts ==
  ASSUME NEW S, NEW q \in Seq(S), q # <<>>
  PROVE  /\ Tail(q) \in Seq(S)
         /\ Head(q) \in S
         /\ Head(q) = q[1] /\ 1 \in 1..Len(q)
         /\ \A i \in 1..Len(Tail(q)) : i + 1 \in 1..Len(q) /\ Tail(q)[i] = q[i + 1]
OBVIOUS

(* What a longer sequence holds. *)
LEMMA AppendFacts ==
  ASSUME NEW S, NEW q \in Seq(S), NEW e \in S
  PROVE  /\ Append(q, e) \in Seq(S)
         /\ \A i \in 1..Len(Append(q, e)) :
              \/ i \in 1..Len(q) /\ Append(q, e)[i] = q[i]
              \/ Append(q, e)[i] = e
OBVIOUS

(* The request a caller writes is well formed, and its own. *)
LEMMA CurrentFacts ==
  ASSUME IInv, NEW c \in Callers, pc[c] # "idle"
  PROVE  /\ Current(c) \in Calls
         /\ [echo |-> echo[c], call |-> Current(c)] \in Requests
         /\ IsOwn([echo |-> echo[c], call |-> Current(c)])
<1>1. nth[c] \in 1..MaxCalls /\ echo[c] \in Nat /\ echo[c] <= seq
  BY CallsAssumption DEF IInv, TypeOK, ActiveCalls
<1>2. Current(c) \in Calls /\ Current(c)[1] = c /\ Current(c)[2] = nth[c]
  BY <1>1 DEF Current, Calls
<1>3. \A d \in Callers : pc[d] # "idle" /\ echo[d] = echo[c] => d = c
  BY DEF IInv, ActiveCalls
<1> QED
  BY <1>1, <1>2, <1>3 DEF Requests, IsOwn, IInv, TypeOK

(* The call a caller begins is a new one. *)
LEMMA BeginFacts ==
  ASSUME IInv, NEW c \in Callers, CallBegin(c)
  PROVE  /\ <<c, nth[c] + 1>> \in Calls
         /\ [echo |-> seq + 1, call |-> <<c, nth[c] + 1>>] \in Requests
         /\ seq \in Nat /\ seq' = seq + 1
         /\ nth' \in [Callers -> 0..MaxCalls] /\ echo' \in [Callers -> Nat]
         /\ nth[c] \in Nat /\ nth'[c] = nth[c] + 1 /\ echo'[c] = seq + 1
         /\ pc[c] = "idle" /\ pc'[c] = "lock" /\ out'[c] = None
         /\ \A d \in Callers : d # c =>
              nth'[d] = nth[d] /\ echo'[d] = echo[d] /\ pc'[d] = pc[d] /\ out'[d] = out[d]
         /\ \A p \in pending' :
              \/ p \in pending
              \/ p = [echo |-> seq + 1, call |-> <<c, nth[c] + 1>>]
         /\ UNCHANGED <<conn, closed, chan, writer, reader, handing, handled, received,
                        events, toPeer, toBridge>>
<1>1. /\ seq \in Nat /\ nth \in [Callers -> 0..MaxCalls] /\ echo \in [Callers -> Nat]
      /\ pc \in [Callers -> {"idle", "lock", "write", "wait"}]
      /\ out \in [Callers -> Requests \cup {None}]
  BY DEF IInv, TypeOK
<1>2. nth[c] + 1 \in 1..MaxCalls /\ nth[c] \in Nat
  BY <1>1, CallsAssumption DEF CallBegin
<1> QED
  BY <1>1, <1>2 DEF CallBegin, Echo, Calls, Requests, readerVars, peerVars

-----------------------------------------------------------------------------
(* Every step keeps the types. *)
LEMMA NextTypeOK == ASSUME IInv, [Next]_vars PROVE TypeOK'
<1> USE CallsAssumption DEF TypeOK, callerVars, readerVars, peerVars
<1>0. TypeOK
  BY DEF IInv
<1>1. ASSUME NEW c \in Callers, CallBegin(c) PROVE TypeOK'
  <2>1. pending' \subseteq Requests
    BY <1>0, <1>1, BeginFacts
  <2>2. /\ out' \in [Callers -> Requests \cup {None}]
        /\ pc' \in [Callers -> {"idle", "lock", "write", "wait"}]
    BY <1>0, <1>1 DEF CallBegin
  <2>3. seq' \in Nat /\ nth' \in [Callers -> 0..MaxCalls] /\ echo' \in [Callers -> Nat]
    <3> HIDE DEF TypeOK
    <3>1. /\ seq \in Nat /\ seq' = seq + 1
          /\ nth' \in [Callers -> 0..MaxCalls] /\ echo' \in [Callers -> Nat]
      BY <1>1, BeginFacts
    <3> QED
      BY <3>1
  <2> QED
    BY <1>0, <1>1, <2>1, <2>2, <2>3 DEF CallBegin
<1>2. ASSUME NEW c \in Callers, CallLock(c) PROVE TypeOK'
  BY <1>0, <1>2 DEF CallLock
<1>3. ASSUME NEW c \in Callers, CallWrite(c) PROVE TypeOK'
  <2>1. CASE toPeer' = Append(toPeer, [echo |-> echo[c], call |-> Current(c)])
    <3>1. toPeer' \in Seq(Requests)
      BY <1>0, <1>3, <2>1, CurrentFacts, AppendFacts DEF CallWrite
    <3> QED
      BY <1>0, <1>3, <3>1 DEF CallWrite
  <2>2. CASE UNCHANGED toPeer
    BY <1>0, <1>3, <2>2 DEF CallWrite
  <2> QED
    BY <1>3, <2>1, <2>2 DEF CallWrite
<1>4. ASSUME NEW c \in Callers, CallWriteFail(c) PROVE TypeOK'
  BY <1>0, <1>4 DEF CallWriteFail, CallReturn
<1>5. ASSUME NEW c \in Callers, CallGiveUp(c) PROVE TypeOK'
  BY <1>0, <1>5 DEF CallGiveUp, CallReturn
<1>6. ASSUME NEW c \in Callers, CallAnswer(c) PROVE TypeOK'
  BY <1>0, <1>6, CurrentFacts DEF CallAnswer, CallReturn
<1>7. ASSUME ReadResponse PROVE TypeOK'
  <2>1. toBridge' \in Seq(Requests \cup {Event}) /\ Head(toBridge) \in Requests
    BY <1>0, <1>7, TailFacts DEF ReadPacket, ReadResponse
  <2>2. handing' \in Handing \/ UNCHANGED <<reader, handing>>
    <3>1. ASSUME NEW p \in pending, handing' = [to |-> p.call, resp |-> Head(toBridge)]
          PROVE  handing' \in Handing
      <4>1. p.call \in Calls
        BY <1>0 DEF Requests
      <4> HIDE DEF TypeOK
      <4> QED
        BY <2>1, <3>1, <4>1 DEF Handing
    <3>2. \/ \E p \in pending : handing' = [to |-> p.call, resp |-> Head(toBridge)]
          \/ UNCHANGED <<reader, handing>>
      BY <1>7 DEF ReadResponse
    <3> QED
      BY <3>1, <3>2
  <2>3. /\ handing' \in Handing \cup {None}
        /\ reader' = "send" => handing' # None
    BY <1>0, <2>2, NoneAssumption
  <2>4. pending' \subseteq Requests /\ reader' \in {"read", "send", "stopped"}
    BY <1>0, <1>7 DEF ReadResponse
  <2> QED
    BY <1>0, <1>7, <2>1, <2>3, <2>4 DEF ReadResponse
<1>8. ASSUME ReadSend PROVE TypeOK'
  BY <1>0, <1>8 DEF ReadSend, Handing, IInv, HandingIsOwn
<1>9. ASSUME ReadEvent PROVE TypeOK'
  BY <1>0, <1>9, TailFacts DEF ReadPacket, ReadEvent
<1>10. ASSUME ReadFail PROVE TypeOK'
  BY <1>0, <1>10 DEF ReadFail
<1>11. ASSUME Close PROVE TypeOK'
  BY <1>0, <1>11 DEF Close
<1>12. ASSUME ConnLost PROVE TypeOK'
  BY <1>0, <1>12 DEF ConnLost
<1>13. ASSUME PeerReceive PROVE TypeOK'
  BY <1>0, <1>13, TailFacts DEF PeerReceive
<1>14. ASSUME PeerAnswer PROVE TypeOK'
  BY <1>0, <1>14, AppendFacts DEF PeerAnswer
<1>15. ASSUME PeerEvent PROVE TypeOK'
  BY <1>0, <1>15, AppendFacts DEF PeerEvent
<1>16. ASSUME UNCHANGED vars PROVE TypeOK'
  BY <1>0, <1>16 DEF vars
<1> QED
  BY <1>1, <1>2, <1>3, <1>4, <1>5, <1>6, <1>7, <1>8, <1>9, <1>10, <1>11, <1>12, <1>13,
     <1>14, <1>15, <1>16 DEF Next, CallStep, ReadStep

(* Nothing but the beginning of a call touches the counters, and nothing   *)
(* else makes a caller active.                                             *)
LEMMA CountersStay ==
  ASSUME IInv, [Next]_vars, ~ \E c \in Callers : CallBegin(c)
  PROVE  /\ UNCHANGED <<seq, nth, echo>>
         /\ \A c \in Callers : pc'[c] # "idle" => pc[c] # "idle"
BY DEF IInv, TypeOK, Next, CallStep, ReadStep, vars, callerVars, readerVars, peerVars, CallLock,
   CallWrite, CallWriteFail, CallGiveUp, CallAnswer, CallReturn, ReadResponse, ReadSend,
   ReadEvent, ReadFail, Close, ConnLost, PeerReceive, PeerAnswer, PeerEvent

(* A request or response that was its call's own stays that: a call that   *)
(* begins draws an echo no packet has, and gets a number no packet has.    *)
LEMMA OwnStays ==
  ASSUME IInv, [Next]_vars, NEW r \in Requests, IsOwn(r)
  PROVE  IsOwn(r)'
<1>0. TypeOK /\ r.echo \in Nat /\ r.call \in Calls /\ r.call[1] \in Callers /\ r.call[2] \in Nat
  BY CallsAssumption DEF IInv, Requests, Calls
<1>1. CASE \E c \in Callers : CallBegin(c)
  <2>1. PICK c \in Callers : CallBegin(c)
    BY <1>1
  <2>2. \A x \in Callers : nth[x] \in Nat /\ nth'[x] \in Nat /\ nth[x] <= nth'[x]
    <3>1. nth \in [Callers -> 0..MaxCalls] /\ nth' \in [Callers -> 0..MaxCalls]
      BY <1>0, <2>1, BeginFacts DEF TypeOK
    <3>2. nth'[c] = nth[c] + 1 /\ \A x \in Callers : x # c => nth'[x] = nth[x]
      BY <2>1, BeginFacts
    <3> QED
      BY <3>1, <3>2, CallsAssumption
  <2>3. seq \in Nat /\ seq' = seq + 1 /\ echo'[c] = seq + 1
    BY <2>1, BeginFacts
  <2>4. r.call[2] <= nth'[r.call[1]] /\ r.echo <= seq'
    BY <1>0, <2>2, <2>3 DEF IsOwn
  <2>5. ASSUME NEW d \in Callers, pc'[d] # "idle", echo'[d] = r.echo
        PROVE  r.call = <<d, nth'[d]>>
    <3>1. d # c
      BY <1>0, <2>3, <2>5 DEF IsOwn
    <3> QED
      BY <1>0, <2>1, <2>5, <3>1, BeginFacts DEF IsOwn, Current
  <2> QED
    BY <2>4, <2>5 DEF IsOwn, Current
<1>2. CASE ~ \E c \in Callers : CallBegin(c)
  BY <1>2, CountersStay DEF IsOwn, Current
<1> QED
  BY <1>1, <1>2

(* The packets on the connection stay their calls' own: none is made but   *)
(* by a caller for its current call, or by the peer from one it received.  *)
LEMMA FlightStays == ASSUME IInv, [Next]_vars PROVE FlightIsOwn'
<1> DEFINE P == \A i \in 1..Len(toPeer') : IsOwn(toPeer'[i])
           R == \A r \in received' : IsOwn(r)
           B == \A i \in 1..Len(toBridge') : toBridge'[i] # Event => IsOwn(toBridge'[i])
<1>0. TypeOK /\ TypeOK' /\ FlightIsOwn
  BY NextTypeOK DEF IInv
<1>1. P /\ R /\ B
  <2> USE DEF callerVars, readerVars, peerVars
  <2>1. CASE UNCHANGED <<toPeer, received, toBridge>>
    BY <1>0, <2>1 DEF FlightIsOwn
  <2>2. ASSUME NEW c \in Callers, CallWrite(c) PROVE P /\ R /\ B
    <3>1. IsOwn([echo |-> echo[c], call |-> Current(c)])
      BY <2>2, CurrentFacts DEF CallWrite
    <3>2. CASE toPeer' = Append(toPeer, [echo |-> echo[c], call |-> Current(c)])
      <4>1. [echo |-> echo[c], call |-> Current(c)] \in Requests
        BY <2>2, CurrentFacts DEF CallWrite
      <4>2. P
        <5>1. toPeer \in Seq(Requests)
          BY <1>0 DEF TypeOK
        <5> QED
          BY <1>0, <3>1, <3>2, <4>1, <5>1, AppendFacts DEF FlightIsOwn
      <4> QED
        BY <1>0, <2>2, <4>2 DEF FlightIsOwn, CallWrite
    <3>3. CASE UNCHANGED toPeer
      BY <1>0, <2>2, <3>3 DEF FlightIsOwn, CallWrite
    <3> QED
      BY <2>2, <3>2, <3>3 DEF CallWrite
  <2>3. ASSUME ReadPacket, UNCHANGED <<toPeer, received>> PROVE P /\ R /\ B
    <3>1. P /\ R
      BY <1>0, <2>3 DEF FlightIsOwn
    <3>2. /\ toBridge \in Seq(Requests \cup {Event}) /\ toBridge # <<>>
          /\ toBridge' = Tail(toBridge)
      BY <1>0, <2>3 DEF ReadPacket, TypeOK
    <3>3. \A i \in 1..Len(toBridge') :
            i + 1 \in 1..Len(toBridge) /\ toBridge'[i] = toBridge[i + 1]
      BY <3>2, TailFacts
    <3> QED
      BY <1>0, <3>1, <3>3 DEF FlightIsOwn
  <2>4. ASSUME PeerReceive PROVE P /\ R /\ B
    BY <1>0, <2>4, TailFacts DEF FlightIsOwn, PeerReceive, TypeOK
  <2>5. ASSUME PeerAnswer PROVE P /\ R /\ B
    BY <1>0, <2>5, AppendFacts DEF FlightIsOwn, PeerAnswer, TypeOK
  <2>6. ASSUME PeerEvent PROVE P /\ R /\ B
    BY <1>0, <2>6, AppendFacts DEF FlightIsOwn, PeerEvent, TypeOK
  <2> QED
    BY <2>1, <2>2, <2>3, <2>4, <2>5, <2>6
    DEF Next, CallStep, ReadStep, vars, CallBegin, CallLock, CallWriteFail, CallGiveUp,
        CallAnswer, ReadResponse, ReadSend, ReadEvent, ReadFail, Close, ConnLost
<1>2. /\ \A i \in 1..Len(toPeer') : toPeer'[i] \in Requests
      /\ \A r \in received' : r \in Requests
      /\ \A i \in 1..Len(toBridge') : toBridge'[i] \in Requests \cup {Event}
  BY <1>0 DEF TypeOK
<1> QED
  BY <1>1, <1>2, OwnStays DEF FlightIsOwn

-----------------------------------------------------------------------------
(* The beginning of a call keeps the inductive invariant. *)
LEMMA BeginIInv == ASSUME IInv, NEW c \in Callers, CallBegin(c) PROVE IInv'
<1> DEFINE new == [echo |-> seq + 1, call |-> <<c, nth[c] + 1>>]
<1>0. TypeOK /\ TypeOK' /\ FlightIsOwn'
  BY NextTypeOK, FlightStays DEF IInv, Next
<1>1. ActiveCalls'
  <2>1. /\ seq \in Nat /\ nth[c] \in Nat /\ seq' = seq + 1
        /\ nth'[c] = nth[c] + 1 /\ echo'[c] = seq + 1
        /\ \A d \in Callers : d # c =>
             nth'[d] = nth[d] /\ echo'[d] = echo[d] /\ pc'[d] = pc[d]
    BY BeginFacts
  <2>2. \A d \in Callers : echo[d] \in Nat
    BY <1>0 DEF TypeOK
  <2> QED
    BY <2>1, <2>2 DEF IInv, ActiveCalls
<1>2. OneWriterHolds'
  BY BeginFacts DEF IInv, OneWriterHolds
<1>3. NoPendingLeak'
  <2>1. ASSUME NEW p \in pending
        PROVE  \E d \in Callers : pc'[d] # "idle" /\ p.call = <<d, nth'[d]>> /\ p.echo = echo'[d]
    <3>1. PICK d \in Callers : pc[d] # "idle" /\ p.call = <<d, nth[d]>> /\ p.echo = echo[d]
      BY <2>1 DEF IInv, NoPendingLeak, Current
    <3>2. d # c /\ nth'[d] = nth[d] /\ echo'[d] = echo[d] /\ pc'[d] = pc[d]
      BY <3>1, BeginFacts
    <3> QED
      BY <3>1, <3>2
  <2>2. pc'[c] # "idle" /\ new.call = <<c, nth'[c]>> /\ new.echo = echo'[c]
    BY BeginFacts
  <2> QED
    BY <2>1, <2>2, BeginFacts DEF NoPendingLeak, Current
<1>4. ASSUME NEW k \in Calls, k[2] <= nth[k[1]]
      PROVE  k[2] <= nth'[k[1]] /\ k # new.call
  <2>1. k[1] \in Callers /\ k[2] \in Nat /\ nth[c] \in Nat
    <3>1. nth[c] \in Nat
      BY BeginFacts
    <3> QED
      BY <3>1, CallsAssumption DEF Calls
  <2>2. nth'[c] = nth[c] + 1 /\ \A x \in Callers : x # c => nth'[x] = nth[x]
    BY BeginFacts
  <2>3. k # new.call
    BY <1>4, <2>1
  <2> QED
    BY <1>4, <2>1, <2>2, <2>3
<1>5. HandingIsOwn'
  <2>1. UNCHANGED <<reader, handing, chan>>
    BY BeginFacts
  <2>2. \A p \in pending' : p \in pending \/ p = new
    BY BeginFacts
  <2>3. ASSUME reader = "send"
        PROVE  handing.to[2] <= nth'[handing.to[1]] /\ handing.to # new.call
    <3>1. handing.to \in Calls /\ handing.to[2] <= nth[handing.to[1]]
      BY <2>3 DEF IInv, HandingIsOwn, Handing
    <3> QED
      BY <1>4, <3>1
  <2> QED
    BY <2>1, <2>2, <2>3 DEF IInv, HandingIsOwn
<1>6. ChannelsAreOwn'
  <2>1. UNCHANGED chan
    BY BeginFacts
  <2>2. \A p \in pending' : p \in pending \/ p = new
    BY BeginFacts
  <2> QED
    BY <1>4, <2>1, <2>2 DEF IInv, ChannelsAreOwn
<1>7. AnswersOwnCall'
  BY BeginFacts DEF IInv, AnswersOwnCall, Current
<1> QED
  BY <1>0, <1>1, <1>2, <1>3, <1>5, <1>6, <1>7 DEF IInv

(* So does the return of a call, whatever it returns with, as long as that *)
(* is nothing or the answer to the call.                                   *)
LEMMA ReturnIInv ==
  ASSUME IInv, TypeOK', FlightIsOwn', NEW c \in Callers, pc[c] # "idle",
         NEW result \in Requests \cup {None}, CallReturn(c, result),
         result # None => result.call = Current(c),
         writer' \in {writer, None}, writer' = None => \A d \in Callers : d # c => pc[d] # "write",
         \A k \in Calls : chan'[k] # None => chan'[k] = chan[k],
         UNCHANGED <<seq, nth, echo, reader, handing>>
  PROVE  IInv'
<1>1. /\ pc'[c] = "idle" /\ out'[c] = result
      /\ \A d \in Callers : d # c => pc'[d] = pc[d] /\ out'[d] = out[d]
      /\ pending' = {p \in pending : p.echo # echo[c]}
  BY DEF CallReturn, IInv, TypeOK
<1>2. ActiveCalls'
  BY <1>1 DEF IInv, ActiveCalls
<1>3. OneWriterHolds'
  BY <1>1 DEF IInv, OneWriterHolds
<1>4. NoPendingLeak'
  BY <1>1 DEF IInv, NoPendingLeak, Current
<1>5. HandingIsOwn'
  BY <1>1 DEF IInv, HandingIsOwn, Handing
<1>6. ChannelsAreOwn'
  BY <1>1 DEF IInv, ChannelsAreOwn
<1>7. AnswersOwnCall'
  BY <1>1 DEF IInv, AnswersOwnCall, Current
<1> QED
  BY <1>2, <1>3, <1>4, <1>5, <1>6, <1>7 DEF IInv

(* A response is handed to the channel of the call it answers. *)
LEMMA ResponseIInv == ASSUME IInv, ReadResponse PROVE IInv'
<1>0. TypeOK /\ TypeOK' /\ FlightIsOwn' /\ FlightIsOwn
  BY NextTypeOK, FlightStays DEF IInv, Next, ReadStep
<1>1. UNCHANGED <<chan, seq, writer, pc, nth, echo, out>>
  BY DEF ReadResponse, callerVars
<1>2. pending' \subseteq pending
  BY DEF ReadResponse
<1>3. ActiveCalls' /\ OneWriterHolds' /\ NoPendingLeak' /\ ChannelsAreOwn' /\ AnswersOwnCall'
  BY <1>1, <1>2 DEF IInv, ActiveCalls, OneWriterHolds, NoPendingLeak, ChannelsAreOwn,
     AnswersOwnCall, Current
<1>4. HandingIsOwn'
  <2>1. CASE UNCHANGED reader
    BY <2>1 DEF ReadResponse, ReadPacket, HandingIsOwn
  <2>2. ASSUME NEW p \in pending, p.echo = Head(toBridge).echo, pending' = pending \ {p},
               handing' = [to |-> p.call, resp |-> Head(toBridge)]
        PROVE  HandingIsOwn'
    <3>1. Head(toBridge) \in Requests /\ IsOwn(Head(toBridge))
      <4>1. toBridge \in Seq(Requests \cup {Event}) /\ toBridge # <<>> /\ Head(toBridge) # Event
        BY <1>0 DEF ReadResponse, ReadPacket, TypeOK
      <4>2. /\ Head(toBridge) \in Requests \cup {Event}
            /\ Head(toBridge) = toBridge[1] /\ 1 \in 1..Len(toBridge)
        BY <4>1
      <4> QED
        BY <1>0, <4>1, <4>2 DEF FlightIsOwn
    <3>2. PICK c \in Callers : pc[c] # "idle" /\ p.call = Current(c) /\ p.echo = echo[c]
      BY DEF IInv, NoPendingLeak
    <3>3. Head(toBridge).call = p.call
      BY <2>2, <3>1, <3>2 DEF IsOwn
    <3>4. p.call \in Calls /\ p.call[2] <= nth[p.call[1]] /\ chan[p.call] = None
      <4>1. p.call \in Calls /\ chan[p.call] = None
        BY <1>0, <3>2, CurrentFacts DEF IInv, ChannelsAreOwn
      <4>2. p.call[1] = c /\ p.call[2] = nth[c] /\ nth[c] \in Nat
        BY <1>0, <3>2, CallsAssumption DEF Current, TypeOK
      <4> QED
        BY <4>1, <4>2
    <3>5. \A q \in pending' : q.call # p.call
      <4> SUFFICES ASSUME NEW q \in pending, q # p, q.call = p.call PROVE FALSE
        BY <2>2
      <4>1. PICK d \in Callers : pc[d] # "idle" /\ q.call = Current(d) /\ q.echo = echo[d]
        BY DEF IInv, NoPendingLeak
      <4>2. d = c
        BY <3>2, <4>1 DEF Current
      <4>3. q \in Requests /\ p \in Requests /\ q.echo = p.echo
        BY <1>0, <3>2, <4>1, <4>2 DEF TypeOK
      <4> QED
        BY <4>3 DEF Requests
    <3>6. handing'.to = p.call /\ handing'.resp = Head(toBridge)
      BY <2>2
    <3>7. handing' \in Handing
      BY <2>2, <3>1, <3>4 DEF Handing
    <3>8. handing'.to[2] <= nth'[handing'.to[1]] /\ chan'[handing'.to] = None
      BY <1>1, <3>4, <3>6
    <3>9. /\ handing'.resp.call = handing'.to
          /\ \A q \in pending' : q.call # handing'.to
      BY <3>3, <3>5, <3>6
    <3> QED
      BY <3>7, <3>8, <3>9 DEF HandingIsOwn
  <2> QED
    BY <2>1, <2>2 DEF ReadResponse
<1> QED
  BY <1>0, <1>3, <1>4 DEF IInv

(* The send fills the empty channel of a call with its own answer. *)
LEMMA SendIInv == ASSUME IInv, ReadSend PROVE IInv'
<1>0. TypeOK /\ TypeOK' /\ FlightIsOwn'
  BY NextTypeOK, FlightStays DEF IInv, Next, ReadStep
<1>1. UNCHANGED <<pending, seq, writer, pc, nth, echo, out>>
  BY DEF ReadSend, callerVars
<1>2. ActiveCalls' /\ OneWriterHolds' /\ NoPendingLeak' /\ AnswersOwnCall' /\ HandingIsOwn'
  BY <1>1 DEF IInv, ActiveCalls, OneWriterHolds, NoPendingLeak, AnswersOwnCall, HandingIsOwn,
     Current, ReadSend
<1>3. ChannelsAreOwn'
  <2>1. HandingIsOwn /\ reader = "send"
    BY DEF IInv, ReadSend
  <2>2. \A k \in Calls : chan'[k] = IF k = handing.to THEN handing.resp ELSE chan[k]
    BY <1>0 DEF ReadSend, TypeOK
  <2> QED
    BY <1>1, <2>1, <2>2 DEF IInv, HandingIsOwn, ChannelsAreOwn
<1> QED
  BY <1>0, <1>2, <1>3 DEF IInv

(* Every step keeps the inductive invariant. *)
LEMMA NextIInv == ASSUME IInv, [Next]_vars PROVE IInv'
<1> USE DEF callerVars, readerVars, peerVars
<1>0. TypeOK /\ TypeOK' /\ FlightIsOwn'
  BY NextTypeOK, FlightStays DEF IInv
<1>1. ASSUME NEW c \in Callers, CallBegin(c) PROVE IInv'
  BY <1>1, BeginIInv
<1>2. ASSUME NEW c \in Callers, CallLock(c) PROVE IInv'
  <2>1. /\ writer = None /\ writer' = c /\ pc[c] = "lock" /\ pc'[c] = "write"
        /\ \A d \in Callers : d # c => pc'[d] = pc[d]
    BY <1>0, <1>2 DEF CallLock, TypeOK
  <2>2. OneWriterHolds'
    BY <2>1, NoneAssumption DEF IInv, OneWriterHolds
  <2> QED
    BY <1>0, <1>2, <2>1, <2>2
    DEF IInv, CallLock, ActiveCalls, NoPendingLeak, HandingIsOwn, ChannelsAreOwn,
        AnswersOwnCall, Current
<1>3. ASSUME NEW c \in Callers, CallWrite(c) PROVE IInv'
  <2>1. /\ writer' = None /\ pc[c] = "write" /\ pc'[c] = "wait"
        /\ \A d \in Callers : d # c => pc'[d] = pc[d]
    BY <1>0, <1>3 DEF CallWrite, TypeOK
  <2>2. OneWriterHolds'
    BY <2>1, NoneAssumption DEF IInv, OneWriterHolds
  <2> QED
    BY <1>0, <1>3, <2>1, <2>2
    DEF IInv, CallWrite, ActiveCalls, NoPendingLeak, HandingIsOwn, ChannelsAreOwn,
        AnswersOwnCall, Current
<1>4. ASSUME NEW c \in Callers, CallWriteFail(c) PROVE IInv'
  <2>1. \A d \in Callers : d # c => pc[d] # "write"
    BY <1>4 DEF IInv, OneWriterHolds, CallWriteFail
  <2> QED
    BY <1>0, <1>4, <2>1, ReturnIInv DEF CallWriteFail
<1>5. ASSUME NEW c \in Callers, CallGiveUp(c) PROVE IInv'
  <2>1. writer' = None => \A d \in Callers : d # c => pc[d] # "write"
    BY <1>5, NoneAssumption DEF IInv, OneWriterHolds, CallGiveUp
  <2> QED
    BY <1>0, <1>5, <2>1, ReturnIInv DEF CallGiveUp
<1>6. ASSUME NEW c \in Callers, CallAnswer(c) PROVE IInv'
  <2>1. Current(c) \in Calls
    BY <1>6, CurrentFacts DEF CallAnswer
  <2>2. chan[Current(c)] \in Requests /\ chan[Current(c)].call = Current(c)
    BY <1>0, <1>6, <2>1 DEF IInv, ChannelsAreOwn, CallAnswer, TypeOK
  <2>3. \A k \in Calls : chan'[k] # None => chan'[k] = chan[k]
    BY <1>0, <1>6, <2>1 DEF CallAnswer, TypeOK
  <2>4. writer' = None => \A d \in Callers : d # c => pc[d] # "write"
    BY <1>6, NoneAssumption DEF IInv, OneWriterHolds, CallAnswer
  <2> QED
    BY <1>0, <1>6, <2>2, <2>3, <2>4, ReturnIInv DEF CallAnswer
<1>7. ASSUME ReadResponse PROVE IInv'
  BY <1>7, ResponseIInv
<1>8. ASSUME ReadSend PROVE IInv'
  BY <1>8, SendIInv
<1>9. ASSUME UNCHANGED <<pending, chan, seq, writer, pc, nth, echo, out>>,
             reader' = "send" => reader = "send", UNCHANGED handing
      PROVE  IInv'
  BY <1>0, <1>9 DEF IInv, ActiveCalls, OneWriterHolds, NoPendingLeak, HandingIsOwn,
     ChannelsAreOwn, AnswersOwnCall, Current
<1> QED
  BY <1>1, <1>2, <1>3, <1>4, <1>5, <1>6, <1>7, <1>8, <1>9
  DEF Next, CallStep, ReadStep, vars, ReadEvent, ReadFail, Close, ConnLost, PeerReceive,
      PeerAnswer, PeerEvent

-----------------------------------------------------------------------------
(* The theorems. *)

(* The inductive invariant holds in every reachable state. *)
THEOREM Invariance == Spec => []IInv
<1>1. Init => IInv
  BY InitIInv
<1>2. IInv /\ [Next]_vars => IInv'
  BY NextIInv
<1> QED
  BY <1>1, <1>2, PTL DEF Spec

(* Every variable of the session keeps its type. *)
THEOREM TypeCorrect == Spec => []TypeOK
<1>1. IInv => TypeOK
  BY DEF IInv
<1> QED
  BY <1>1, Invariance, PTL

(* A call that returns a response returns the answer to its own request. *)
THEOREM AnswersAreOwn == Spec => []AnswersOwnCall
<1>1. IInv => AnswersOwnCall
  BY DEF IInv
<1> QED
  BY <1>1, Invariance, PTL

(* Handing a response on never blocks readLoop. *)
THEOREM ReaderIsFree == Spec => []ReaderNeverBlocks
<1>1. IInv => ReaderNeverBlocks
  BY DEF IInv, HandingIsOwn, ReaderNeverBlocks
<1> QED
  BY <1>1, Invariance, PTL

(* Every pending entry belongs to a call under way. *)
THEOREM NothingPendingIsLeft == Spec => []NoPendingLeak
<1>1. IInv => NoPendingLeak
  BY DEF IInv
<1> QED
  BY <1>1, Invariance, PTL

(* WriteJSON runs in one goroutine at a time. *)
THEOREM WritesAreExclusive == Spec => []OneWriter
<1>1. IInv => OneWriter
  BY DEF IInv, OneWriterHolds, OneWriter
<1> QED
  BY <1>1, Invariance, PTL
-----------------------------------------------------------------------------
(* The session implements CallContract. *)

(* What goes back to a caller was received by the peer, and a call under   *)
(* way has no answer yet.                                                  *)
BackIsReceived ==
  /\ \A i \in 1..Len(toBridge) : toBridge[i] # Event => toBridge[i] \in received
  /\ reader = "send" => handing.resp \in received
  /\ \A k \in Calls : chan[k] # None => chan[k] \in received

NoAnswerYet == \A c \in Callers : pc[c] # "idle" => out[c] = None

RInv == IInv /\ BackIsReceived /\ NoAnswerYet

(* Before the first call nothing has come back. *)
LEMMA InitRInv == Init => RInv
<1>1. ASSUME Init PROVE BackIsReceived /\ NoAnswerYet
  BY <1>1 DEF Init, BackIsReceived, NoAnswerYet
<1> QED
  BY <1>1, InitIInv DEF RInv

(* Every step keeps answers behind the requests they answer. *)
LEMMA NextRInv == ASSUME RInv, [Next]_vars PROVE RInv'
<1> USE DEF callerVars, readerVars, peerVars
<1>0. IInv /\ TypeOK /\ IInv' /\ TypeOK'
  BY NextIInv DEF RInv, IInv
<1>1. BackIsReceived'
  <2>1. CASE UNCHANGED <<toBridge, reader, handing, chan, received>>
    BY <2>1 DEF RInv, BackIsReceived
  <2>2. ASSUME NEW c \in Callers, CallAnswer(c) PROVE BackIsReceived'
    <3>1. Current(c) \in Calls
      BY <1>0, <2>2, CurrentFacts DEF CallAnswer
    <3> QED
      BY <1>0, <2>2, <3>1, NoneAssumption DEF CallAnswer, RInv, BackIsReceived, TypeOK
  <2>3. ASSUME ReadResponse PROVE BackIsReceived'
    <3>1. /\ Head(toBridge) \in received
          /\ \A i \in 1..Len(toBridge') : toBridge'[i] # Event => toBridge'[i] \in received
      BY <1>0, <2>3, TailFacts DEF ReadResponse, ReadPacket, RInv, BackIsReceived, TypeOK
    <3> QED
      BY <2>3, <3>1 DEF ReadResponse, RInv, BackIsReceived
  <2>4. ASSUME ReadSend PROVE BackIsReceived'
    BY <1>0, <2>4 DEF ReadSend, RInv, BackIsReceived, TypeOK
  <2>5. ASSUME ReadEvent PROVE BackIsReceived'
    BY <1>0, <2>5, TailFacts DEF ReadEvent, ReadPacket, RInv, BackIsReceived, TypeOK
  <2>6. ASSUME ReadFail PROVE BackIsReceived'
    BY <2>6 DEF ReadFail, RInv, BackIsReceived
  <2>7. ASSUME PeerReceive PROVE BackIsReceived'
    BY <2>7 DEF PeerReceive, RInv, BackIsReceived
  <2>8. ASSUME PeerAnswer PROVE BackIsReceived'
    <3>1. PICK r \in received : toBridge' = Append(toBridge, r)
      BY <2>8 DEF PeerAnswer
    <3>2. toBridge \in Seq(Requests \cup {Event}) /\ r \in Requests \cup {Event}
      BY <1>0, <3>1 DEF TypeOK
    <3>3. \A i \in 1..Len(toBridge') : toBridge'[i] # Event => toBridge'[i] \in received
      BY <3>1, <3>2, AppendFacts DEF RInv, BackIsReceived
    <3> QED
      BY <2>8, <3>3 DEF PeerAnswer, RInv, BackIsReceived
  <2>9. ASSUME PeerEvent PROVE BackIsReceived'
    <3>1. \A i \in 1..Len(toBridge') : toBridge'[i] # Event => toBridge'[i] \in received
      BY <1>0, <2>9, AppendFacts DEF PeerEvent, RInv, BackIsReceived, TypeOK
    <3> QED
      BY <2>9, <3>1 DEF PeerEvent, RInv, BackIsReceived
  <2> QED
    BY <2>1, <2>2, <2>3, <2>4, <2>5, <2>6, <2>7, <2>8, <2>9
    DEF Next, CallStep, ReadStep, vars, CallBegin, CallLock, CallWrite, CallWriteFail,
        CallGiveUp, Close, ConnLost
<1>2. NoAnswerYet'
  <2>0. NoAnswerYet
    BY DEF RInv
  <2>1. ASSUME NEW c \in Callers, CallBegin(c) PROVE NoAnswerYet'
    BY <1>0, <2>0, <2>1, BeginFacts DEF NoAnswerYet
  <2>2. ASSUME NEW c \in Callers, CallWriteFail(c) \/ CallGiveUp(c) \/ CallAnswer(c)
        PROVE  NoAnswerYet'
    <3>1. /\ pc' = [pc EXCEPT ![c] = "idle"]
          /\ \A d \in Callers : d # c => out'[d] = out[d]
      BY <1>0, <2>2 DEF CallWriteFail, CallGiveUp, CallAnswer, CallReturn, TypeOK
    <3> QED
      BY <1>0, <2>0, <3>1 DEF NoAnswerYet, TypeOK
  <2>3. CASE UNCHANGED out /\ ~ \E c \in Callers : CallBegin(c)
    BY <1>0, <2>0, <2>3, CountersStay DEF NoAnswerYet
  <2>4. CASE UNCHANGED <<pc, out>>
    BY <2>0, <2>4 DEF NoAnswerYet
  <2>5. ASSUME NEW c \in Callers, CallLock(c) \/ CallWrite(c) PROVE UNCHANGED out
    BY <2>5 DEF CallLock, CallWrite
  <2> QED
    BY <2>1, <2>2, <2>3, <2>4, <2>5
    DEF Next, CallStep, ReadStep, vars, ReadResponse, ReadSend, ReadEvent, ReadFail, Close,
        ConnLost, PeerReceive, PeerAnswer, PeerEvent
<1> QED
  BY <1>0, <1>1, <1>2 DEF RInv

(* The call a goroutine begins is asked. *)
LEMMA BeginIsAsk ==
  ASSUME RInv, NEW c \in Callers, CallBegin(c)
  PROVE  Contract!Ask(c, <<c, nth[c] + 1>>)
<1> DEFINE k == <<c, nth[c] + 1>>
<1>0. IInv /\ TypeOK
  BY DEF RInv, IInv
<1>1. k \in Calls /\ nth[c] \in Nat /\ nth'[c] = nth[c] + 1
  BY <1>0, BeginFacts
<1>2. \A d \in Callers : nth[d] \in Nat /\ nth'[d] = IF d = c THEN nth[c] + 1 ELSE nth[d]
  <2>1. nth \in [Callers -> 0..MaxCalls] /\ nth[c] \in Nat
    BY <1>0, <1>1 DEF TypeOK
  <2>2. nth'[c] = nth[c] + 1 /\ \A d \in Callers : d # c => nth'[d] = nth[d]
    BY <1>0, BeginFacts
  <2> QED
    BY <2>1, <2>2, CallsAssumption
<1>3. OpenCall[c] = None /\ OpenCall' = [OpenCall EXCEPT ![c] = k]
  BY <1>0, BeginFacts DEF OpenCall, Current
<1>4. LastAnswer' = [LastAnswer EXCEPT ![c] = None]
  BY <1>0, BeginFacts DEF LastAnswer
<1>5. k \notin Asked /\ Asked' = Asked \cup {k}
  <2>1. \A x \in Calls : x[1] \in Callers /\ x[2] \in Nat /\ x = <<x[1], x[2]>>
    BY CallsAssumption DEF Calls
  <2>2. k \notin Asked
    BY <1>1 DEF Asked
  <2>3. ASSUME NEW x \in Calls PROVE x[2] <= nth'[x[1]] <=> x[2] <= nth[x[1]] \/ x = k
    BY <1>1, <1>2, <2>1
  <2> QED
    BY <1>1, <2>2, <2>3 DEF Asked
<1>6. Executed' = Executed
  BY <1>0, BeginFacts DEF Executed
<1> QED
  BY <1>3, <1>4, <1>5, <1>6 DEF Contract!Ask

(* Every step is one of CallContract, or shows nothing of the calls. *)
LEMMA StepRefines == ASSUME RInv, [Next]_vars PROVE [Contract!Next]_Contract!vars
<1> USE DEF callerVars, readerVars, peerVars
<1>0. IInv /\ TypeOK
  BY DEF RInv, IInv
<1>1. ASSUME NEW c \in Callers, CallBegin(c) PROVE Contract!Next
  BY <1>0, <1>1, BeginIsAsk, BeginFacts DEF Contract!Next
<1>2. CASE \E c \in Callers : CallLock(c) \/ CallWrite(c)
  <2>1. \A d \in Callers : pc'[d] = "idle" <=> pc[d] = "idle"
    BY <1>0, <1>2 DEF CallLock, CallWrite, TypeOK
  <2>2. UNCHANGED <<nth, out, received>>
    BY <1>2 DEF CallLock, CallWrite
  <2> QED
    BY <2>1, <2>2 DEF Contract!vars, OpenCall, LastAnswer, Asked, Executed, Current
<1>3. ASSUME NEW c \in Callers, CallWriteFail(c) \/ CallGiveUp(c) PROVE Contract!Next
  <2>1. /\ pc[c] # "idle" /\ pc' = [pc EXCEPT ![c] = "idle"]
        /\ out' = [out EXCEPT ![c] = None] /\ UNCHANGED <<nth, received>>
    BY <1>3 DEF CallWriteFail, CallGiveUp, CallReturn
  <2>2. out[c] = None /\ out' = out
    BY <1>0, <2>1 DEF RInv, NoAnswerYet, TypeOK
  <2>3. OpenCall[c] # None
    BY <1>0, <2>1, CurrentFacts, NoneAssumption DEF OpenCall
  <2>4. OpenCall' = [OpenCall EXCEPT ![c] = None]
    BY <1>0, <2>1 DEF OpenCall, Current, TypeOK
  <2>5. UNCHANGED <<LastAnswer, Asked, Executed>>
    BY <2>1, <2>2 DEF LastAnswer, Asked, Executed
  <2> QED
    BY <2>3, <2>4, <2>5 DEF Contract!Next, Contract!Fail
<1>4. ASSUME NEW c \in Callers, CallAnswer(c) PROVE Contract!Next
  <2>1. /\ pc[c] # "idle" /\ pc' = [pc EXCEPT ![c] = "idle"] /\ chan[Current(c)] # None
        /\ out' = [out EXCEPT ![c] = chan[Current(c)]] /\ UNCHANGED <<nth, received>>
    BY <1>4 DEF CallAnswer, CallReturn
  <2>2. Current(c) \in Calls
    BY <1>0, <2>1, CurrentFacts
  <2>3. chan[Current(c)].call = Current(c) /\ chan[Current(c)] \in received
    BY <1>0, <2>1, <2>2 DEF RInv, IInv, ChannelsAreOwn, BackIsReceived
  <2>4. OpenCall[c] = Current(c) /\ Current(c) \in Executed
    BY <2>1, <2>3 DEF OpenCall, Executed
  <2>5. OpenCall' = [OpenCall EXCEPT ![c] = None]
    BY <1>0, <2>1 DEF OpenCall, Current, TypeOK
  <2>6. LastAnswer' = [LastAnswer EXCEPT ![c] = Current(c)]
    BY <1>0, <2>1, <2>3 DEF LastAnswer, TypeOK
  <2>7. UNCHANGED <<Asked, Executed>>
    BY <2>1 DEF Asked, Executed
  <2> QED
    BY <2>4, <2>5, <2>6, <2>7 DEF Contract!Next, Contract!Answer
<1>5. CASE PeerReceive
  <2>1. toPeer \in Seq(Requests) /\ toPeer # <<>> /\ received' = received \cup {Head(toPeer)}
    BY <1>0, <1>5 DEF PeerReceive, TypeOK
  <2>2. Head(toPeer) \in Requests /\ IsOwn(Head(toPeer))
    BY <1>0, <2>1, TailFacts DEF IInv, FlightIsOwn
  <2>3. Head(toPeer).call \in Calls /\ Head(toPeer).call \in Asked
    BY <2>2 DEF Requests, IsOwn, Asked
  <2>4. Executed' = Executed \cup {Head(toPeer).call}
    BY <2>1 DEF Executed
  <2>5. UNCHANGED <<OpenCall, LastAnswer, Asked>>
    BY <1>5 DEF PeerReceive, OpenCall, LastAnswer, Asked, Current
  <2> QED
    BY <2>3, <2>4, <2>5 DEF Contract!Next, Contract!Execute
<1>6. CASE UNCHANGED <<pc, nth, out, received>>
  BY <1>6 DEF Contract!vars, OpenCall, LastAnswer, Asked, Executed, Current
<1> QED
  BY <1>1, <1>2, <1>3, <1>4, <1>5, <1>6
  DEF Next, CallStep, ReadStep, vars, ReadResponse, ReadSend, ReadEvent, ReadFail, Close,
      ConnLost, PeerAnswer, PeerEvent

(* To the goroutines that call, the session is CallContract. *)
THEOREM Refinement == Spec => ImplementsCallContract
<1>1. Init => Contract!Init
  <2>1. ASSUME Init PROVE Asked = {}
    BY <2>1, CallsAssumption DEF Init, Asked, Calls
  <2> QED
    BY <2>1 DEF Init, Contract!Init, OpenCall, LastAnswer, Executed
<1>2. RInv /\ [Next]_vars => [Contract!Next]_Contract!vars
  BY StepRefines
<1>3. Init => RInv
  BY InitRInv
<1>4. RInv /\ [Next]_vars => RInv'
  BY NextRInv
<1> QED
  BY <1>1, <1>2, <1>3, <1>4, PTL DEF Spec, ImplementsCallContract, Contract!Spec

-----------------------------------------------------------------------------
(* Who waits for what: the parts of TimedCallsReturn, and of its failure   *)
(* for calls without a deadline, that need no fairness.                    *)

(* The entry that readLoop finds the call under way of c by. *)
Entry(c) == [echo |-> echo[c], call |-> Current(c)]

(* From the moment it is stored until the call returns, its entry is       *)
(* pending, or readLoop has its answer in hand, or its channel has it.     *)
AnswerFindsCall ==
  \A c \in Callers : pc[c] # "idle" =>
    \/ Entry(c) \in pending
    \/ reader = "send" /\ handing.to = Current(c)
    \/ chan[Current(c)] # None

(* Nobody holds writeMu but for the time of a WriteJSON. *)
HolderIsWriting == writer # None => pc[writer] = "write"

(* No other call's begin or return touches the entry of a call under way.  *)
LEMMA EntryStays ==
  ASSUME IInv, [Next]_vars, NEW c \in Callers, pc[c] # "idle", pc'[c] # "idle", ~ReadResponse,
         Entry(c) \in pending
  PROVE  Entry(c)' \in pending'
<1> USE DEF callerVars, readerVars, peerVars
<1>0. TypeOK /\ echo[c] <= seq /\ seq \in Nat /\ echo[c] \in Nat
  BY DEF IInv, TypeOK, ActiveCalls
<1>1. ASSUME NEW d \in Callers, CallBegin(d) PROVE Entry(c)' \in pending'
  <2>1. c # d /\ Entry(c)' = Entry(c)
    BY <1>1, BeginFacts DEF Entry, Current
  <2>2. pending' = {p \in pending : p.echo # seq + 1}
                     \cup {[echo |-> seq + 1, call |-> <<d, nth[d] + 1>>]}
    BY <1>1 DEF CallBegin, Echo
  <2>3. Entry(c).echo # seq + 1
    BY <1>0 DEF Entry
  <2> QED
    BY <2>1, <2>2, <2>3
<1>2. ASSUME ~ \E d \in Callers : CallBegin(d) PROVE Entry(c)' = Entry(c)
  BY <1>2, CountersStay DEF Entry, Current
<1>3. ASSUME NEW d \in Callers, CallWriteFail(d) \/ CallGiveUp(d) \/ CallAnswer(d)
      PROVE  Entry(c) \in pending'
  <2>1. /\ pc[d] # "idle" /\ pc'[d] = "idle"
        /\ pending' = {p \in pending : p.echo # echo[d]}
    BY <1>0, <1>3 DEF CallWriteFail, CallGiveUp, CallAnswer, CallReturn, TypeOK
  <2>2. c # d /\ echo[c] # echo[d]
    BY <2>1 DEF IInv, ActiveCalls
  <2> QED
    BY <2>1, <2>2 DEF Entry
<1>4. ASSUME \/ \E d \in Callers : CallLock(d) \/ CallWrite(d)
             \/ ReadSend \/ ReadEvent \/ ReadFail
             \/ Close \/ ConnLost \/ PeerReceive \/ PeerAnswer \/ PeerEvent
             \/ UNCHANGED vars
      PROVE  pending' = pending
  BY <1>4 DEF CallLock, CallWrite, ReadSend, ReadEvent, ReadFail, Close, ConnLost, PeerReceive,
     PeerAnswer, PeerEvent, vars
<1> QED
  BY <1>1, <1>2, <1>3, <1>4 DEF Next, CallStep, ReadStep

(* ... so an answer that comes meets its call.                             *)
LEMMA AnswerStillFinds ==
  ASSUME IInv, AnswerFindsCall, [Next]_vars
  PROVE  AnswerFindsCall'
<1> USE DEF callerVars, readerVars, peerVars
<1> SUFFICES ASSUME NEW c \in Callers, pc'[c] # "idle"
             PROVE  \/ Entry(c)' \in pending'
                    \/ reader' = "send" /\ handing'.to = Current(c)'
                    \/ chan'[Current(c)'] # None
  BY DEF AnswerFindsCall
<1>0. TypeOK
  BY DEF IInv
<1>1. CASE pc[c] = "idle"
  <2>1. CallBegin(c)
    BY <1>0, <1>1 DEF Next, CallStep, ReadStep, TypeOK, CallBegin, CallLock, CallWrite,
       CallWriteFail, CallGiveUp, CallAnswer, CallReturn, ReadResponse, ReadSend, ReadEvent,
       ReadFail, Close, ConnLost, PeerReceive, PeerAnswer, PeerEvent, vars
  <2>2. Entry(c)' = [echo |-> seq + 1, call |-> <<c, nth[c] + 1>>]
    BY <2>1, BeginFacts DEF Entry, Current
  <2> QED
    BY <2>1, <2>2 DEF CallBegin, Echo
<1>2. CASE pc[c] # "idle"
  <2>0. Current(c)' = Current(c) /\ Entry(c)' = Entry(c) /\ Current(c) \in Calls
    <3>1. CASE \E d \in Callers : CallBegin(d)
      BY <1>2, <3>1, BeginFacts, CurrentFacts DEF Entry, Current
    <3>2. CASE ~ \E d \in Callers : CallBegin(d)
      BY <1>2, <3>2, CountersStay, CurrentFacts DEF Entry, Current
    <3> QED
      BY <3>1, <3>2
  <2>1. CASE ReadResponse
    <3>1. CASE Entry(c) \in pending
      <4>1. CASE pending' = pending
        BY <2>0, <3>1, <4>1
      <4>2. CASE \E p \in pending : pending' = pending \ {p} /\ reader' = "send"
                                      /\ handing' = [to |-> p.call, resp |-> Head(toBridge)]
        <5>1. PICK p \in pending : pending' = pending \ {p} /\ reader' = "send"
                                     /\ handing' = [to |-> p.call, resp |-> Head(toBridge)]
          BY <4>2
        <5>2. CASE p = Entry(c)
          BY <2>0, <5>1, <5>2 DEF Entry
        <5>3. CASE p # Entry(c)
          BY <2>0, <3>1, <5>1, <5>3
        <5> QED
          BY <5>2, <5>3
      <4> QED
        BY <2>1, <4>1, <4>2 DEF ReadResponse
    <3>2. CASE chan[Current(c)] # None
      BY <2>0, <2>1, <3>2 DEF ReadResponse
    <3> QED
      BY <1>2, <2>1, <3>1, <3>2 DEF AnswerFindsCall, ReadResponse, ReadPacket
  <2>2. CASE ~ReadResponse /\ Entry(c) \in pending
    BY <1>2, <2>2, EntryStays
  <2>3. CASE ~ReadResponse /\ reader = "send" /\ handing.to = Current(c)
    <3>1. CASE ReadSend
      <4>1. handing.resp # None
        BY <2>3, NoneAssumption DEF IInv, HandingIsOwn, Handing
      <4> QED
        BY <1>0, <2>0, <2>3, <3>1, <4>1 DEF ReadSend, TypeOK
    <3>2. CASE ~ReadSend
      <4>1. UNCHANGED <<reader, handing>>
        BY <2>3, <3>2 DEF Next, CallStep, ReadStep, CallBegin, CallLock, CallWrite,
           CallWriteFail, CallGiveUp, CallAnswer, ReadEvent, ReadPacket, ReadFail, Close,
           ConnLost, PeerReceive, PeerAnswer, PeerEvent, vars
      <4> QED
        BY <2>0, <2>3, <4>1
    <3> QED
      BY <3>1, <3>2
  <2>4. CASE ~ReadResponse /\ chan[Current(c)] # None
    <3>1. ASSUME NEW d \in Callers, CallAnswer(d) PROVE chan'[Current(c)] = chan[Current(c)]
      <4>1. d # c
        BY <1>0, <1>2, <3>1 DEF CallAnswer, CallReturn, TypeOK
      <4> QED
        BY <1>0, <2>0, <3>1, <4>1 DEF CallAnswer, TypeOK, Current
    <3>2. ASSUME ReadSend PROVE chan'[Current(c)] = chan[Current(c)]
      BY <1>0, <2>0, <2>4, <3>2 DEF ReadSend, TypeOK
    <3>3. CASE UNCHANGED chan
      BY <2>0, <2>4, <3>3
    <3> QED
      BY <2>0, <2>4, <3>1, <3>2, <3>3 DEF Next, CallStep, ReadStep, CallBegin, CallLock,
         CallWrite, CallWriteFail, CallGiveUp, ReadEvent, ReadFail, Close, ConnLost,
         PeerReceive, PeerAnswer, PeerEvent, vars
  <2> QED
    BY <1>2, <2>1, <2>2, <2>3, <2>4 DEF AnswerFindsCall
<1> QED
  BY <1>1, <1>2

(* No answer is lost between Call and readLoop: an answer that readLoop    *)
(* reads while the call is under way reaches the channel the call reads.   *)
THEOREM NoAnswerIsLost == Spec => []AnswerFindsCall
<1>1. Init => AnswerFindsCall
  BY DEF Init, AnswerFindsCall
<1> QED
  BY <1>1, AnswerStillFinds, Invariance, PTL DEF Spec

(* What holds writeMu is in WriteJSON and leaves it with the lock freed, so *)
(* no call waits for writeMu but for a peer that takes nothing from a      *)
(* connection that stays up.                                               *)
THEOREM LockIsOnlyForWriting == Spec => []HolderIsWriting
<1>1. Init => HolderIsWriting
  BY DEF Init, HolderIsWriting
<1>2. IInv /\ HolderIsWriting /\ [Next]_vars => HolderIsWriting'
  <2> SUFFICES ASSUME IInv, HolderIsWriting, [Next]_vars, writer' # None
               PROVE  pc'[writer'] = "write"
    BY DEF HolderIsWriting
  <2> USE DEF callerVars, readerVars, peerVars
  <2>0. TypeOK
    BY DEF IInv
  <2>1. ASSUME NEW c \in Callers, CallBegin(c) \/ CallGiveUp(c) \/ CallAnswer(c)
        PROVE  pc'[writer'] = "write"
    <3>1. writer' = writer /\ writer # c
      BY <2>0, <2>1 DEF CallBegin, CallGiveUp, CallAnswer, HolderIsWriting
    <3>2. \A d \in Callers : d # c => pc'[d] = pc[d]
      BY <2>0, <2>1 DEF CallBegin, CallGiveUp, CallAnswer, CallReturn, TypeOK
    <3> QED
      BY <2>0, <3>1, <3>2 DEF HolderIsWriting, TypeOK
  <2>2. ASSUME NEW c \in Callers, CallLock(c) PROVE pc'[writer'] = "write"
    BY <2>0, <2>2 DEF CallLock, TypeOK
  <2>3. ASSUME NEW c \in Callers, CallWrite(c) \/ CallWriteFail(c) PROVE writer' = None
    BY <2>3 DEF CallWrite, CallWriteFail
  <2>4. CASE UNCHANGED <<writer, pc>>
    BY <2>4 DEF HolderIsWriting
  <2> QED
    BY <2>1, <2>2, <2>3, <2>4 DEF Next, CallStep, ReadStep, ReadResponse, ReadSend, ReadEvent,
       ReadFail, Close, ConnLost, PeerReceive, PeerAnswer, PeerEvent, vars
<1> QED
  BY <1>1, <1>2, Invariance, PTL DEF Spec

(* The session is closed, and c waits for an answer that has not come. *)
CutOff(c) == reader = "stopped" /\ pc[c] = "wait" /\ chan[Current(c)] = None

(* Close wakes nobody: a call without a deadline that has no answer when   *)
(* readLoop ends never returns, though its session is gone.                *)
THEOREM CutOffCallsWait ==
  ASSUME NEW c \in Callers \ Timed
  PROVE  Spec => [](CutOff(c) => []CutOff(c))
<1>1. IInv /\ CutOff(c) /\ [Next]_vars => CutOff(c)'
  <2> SUFFICES ASSUME IInv, CutOff(c), [Next]_vars PROVE CutOff(c)'
    OBVIOUS
  <2> USE DEF callerVars, readerVars, peerVars
  <2>0. TypeOK /\ c \in Callers /\ reader = "stopped" /\ pc[c] = "wait"
        /\ chan[Current(c)] = None
    BY DEF IInv, CutOff
  <2>1. ASSUME NEW d \in Callers, CallBegin(d) PROVE CutOff(c)'
    BY <2>0, <2>1, BeginFacts DEF CutOff, Current
  <2>2. ASSUME NEW d \in Callers, CallStep(d) PROVE CutOff(c)'
    <3>1. d # c
      BY <2>0, <2>2 DEF CallStep, CallLock, CallWrite, CallWriteFail, CallGiveUp, CallAnswer
    <3>2. UNCHANGED <<reader, nth>> /\ pc'[c] = pc[c]
      BY <2>0, <2>2, <3>1 DEF CallStep, CallLock, CallWrite, CallWriteFail, CallGiveUp,
         CallAnswer, CallReturn, TypeOK
    <3>3. chan'[Current(c)] = chan[Current(c)]
      <4>1. CASE CallAnswer(d)
        BY <2>0, <3>1, <4>1 DEF CallAnswer, TypeOK, Current
      <4>2. CASE ~CallAnswer(d)
        BY <2>2, <4>2 DEF CallStep, CallLock, CallWrite, CallWriteFail, CallGiveUp
      <4> QED
        BY <4>1, <4>2
    <3> QED
      BY <2>0, <3>2, <3>3 DEF CutOff, Current
  <2>3. ~ReadStep
    BY <2>0 DEF ReadStep, ReadResponse, ReadPacket, ReadSend, ReadEvent, ReadFail
  <2>4. CASE UNCHANGED <<reader, pc, nth, chan>>
    BY <2>0, <2>4 DEF CutOff, Current
  <2> QED
    BY <2>1, <2>2, <2>3, <2>4 DEF Next, Close, ConnLost, PeerReceive, PeerAnswer, PeerEvent,
       vars
<1> QED
  BY <1>1, Invariance, PTL DEF Spec
=============================================================================
