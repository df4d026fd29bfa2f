------------------------- MODULE DhtRequestsProofs --------------------------
(***************************************************************************)
(* The pending table and the failure tracker for any number of calls,      *)
(* peers, attempts and any threshold.                                      *)
(*                                                                         *)
(* AnswerReachesWaiter needs that a waiting call is listed in the table    *)
(* until its answer is in its channel (WaiterListed); LeaksOnlyAbandoned   *)
(* needs AnswerIsOwn, since a request that registers must not find an      *)
(* answer in its channel.  PeerSpared counts:                              *)
(* the calls between try_acquire and the send are the ones that may still  *)
(* reach a peer whose cooldown has begun, and the call whose failure began *)
(* it is not among them (SparedBy).                                        *)
(***************************************************************************)
EXTENDS DhtRequests, FiniteSetTheorems, TLAPS

CallState == [pc : Place, at : {1} \cup Rank, attempt : 0..MaxAttempts]

Message == [id : RequestId, valid : BOOLEAN, providers : SUBSET Provider]

\* A call in progress has a peer to ask; before a try it has an attempt left.
Right(c, s) ==
    /\ s.pc = "idle" => s.at = 1 /\ s.attempt = 0
    /\ s.pc \in {"acquire", "send", "register", "wait"} => s.at \in 1..Len(Closest[c])
    /\ s.pc = "acquire" => s.attempt < MaxAttempts
    /\ s.pc \in {"send", "register", "wait"} => s.attempt \in 1..MaxAttempts

CallsOK == call \in [Caller -> CallState] /\ \A c \in Caller : Right(c, call[c])

TablesOK ==
    /\ pending \subseteq RequestId
    /\ inbox \in [Caller -> Seq(Message)]
    /\ asked \subseteq RequestId
    /\ store \subseteq Provider
    /\ abandoned \subseteq RequestId

\* A waiting call is in the table until its answer is in its channel.
WaiterListed ==
    \A c \in Caller : call[c].pc = "wait" => IdOf(c) \in pending \/ inbox[c] # <<>>

TableInv ==
    /\ CallsOK /\ TablesOK
    /\ AnswerIsOwn /\ WaiterListed /\ LeaksOnlyAbandoned

-----------------------------------------------------------------------------
(* Facts about the steps of a call.                                         *)

(* Every rank in a call's list of closest peers is a rank.                  *)
LEMMA Ranks ==
    /\ Rank \subseteq Nat
    /\ \A c \in Caller : Len(Closest[c]) \in Nat /\ 1..Len(Closest[c]) \subseteq Rank
    /\ \A c \in Caller : \A i \in 1..Len(Closest[c]) : Closest[c][i] \in Peer
<1>1. \A c \in Caller : Closest[c] \in Seq(Peer)
  BY DhtAssumption
<1> QED
  BY <1>1 DEF Rank

(* The id and the peer of a try have their types.                           *)
LEMMA IdTyped ==
    ASSUME CallsOK, NEW c \in Caller, call[c].pc \in {"send", "register", "wait"}
    PROVE  IdOf(c) \in RequestId /\ PeerOf(c) \in Peer
<1>1. call[c].at \in 1..Len(Closest[c]) /\ call[c].attempt \in 1..MaxAttempts
  BY DEF CallsOK, Right
<1>2. call[c].at \in Rank
  BY <1>1, Ranks
<1> QED
  BY <1>1, <1>2, Ranks DEF IdOf, PeerOf, RequestId

(* A step that moves one call to a right state keeps all calls right.       *)
LEMMA Moves ==
    ASSUME CallsOK, NEW c \in Caller, NEW s \in CallState, Right(c, s),
           call' = [call EXCEPT ![c] = s]
    PROVE  CallsOK'
BY DEF CallsOK, Right

(* Going on to the next peer leaves the call right and not waiting.         *)
LEMMA NextPeerRight ==
    ASSUME CallsOK, NEW c \in Caller, NextPeer(c),
           call[c].pc \in {"acquire", "send", "register", "wait"}
    PROVE  /\ CallsOK'
           /\ call'[c].pc \in {"acquire", "returned"}
           /\ \A d \in Caller \ {c} : call'[d] = call[d]
<1> DEFINE s == IF call[c].at < Len(Closest[c])
                THEN [pc |-> "acquire", at |-> call[c].at + 1, attempt |-> 0] ELSE Returned
<1> USE DEF Returned
<1>1. /\ call[c].at \in 1..Len(Closest[c]) /\ Len(Closest[c]) \in Nat
      /\ call[c].at < Len(Closest[c]) => call[c].at + 1 \in Rank
  BY Ranks DEF CallsOK, Right
<1>2. s \in CallState
  BY <1>1, DhtAssumption DEF CallState, Place
<1>3. Right(c, s)
  BY <1>1, DhtAssumption DEF Right
<1>4. call' = [call EXCEPT ![c] = s]
  BY DEF NextPeer
<1>5. call'[c] = s /\ \A d \in Caller \ {c} : call'[d] = call[d]
  BY <1>4 DEF CallsOK
<1> HIDE DEF s
<1>6. CallsOK'
  BY <1>2, <1>3, <1>4, Moves
<1> QED
  BY <1>5, <1>6 DEF s

(* So does a failed try, which is repeated or leads to the next peer.       *)
LEMMA FailedRight ==
    ASSUME CallsOK, NEW c \in Caller, NEW transient \in BOOLEAN, Failed(c, transient),
           call[c].pc \in {"send", "wait"}
    PROVE  /\ CallsOK'
           /\ call'[c].pc \in {"acquire", "returned"}
           /\ \A d \in Caller \ {c} : call'[d] = call[d]
<1>1. CASE transient /\ call[c].attempt < MaxAttempts
  <2> DEFINE s == [call[c] EXCEPT !.pc = "acquire"]
  <2>1. call[c] \in CallState /\ Right(c, call[c])
    BY DEF CallsOK
  <2>2. s \in CallState /\ Right(c, s) /\ s.pc = "acquire"
    BY <1>1, <2>1 DEF CallState, Place, Right
  <2>3. call' = [call EXCEPT ![c] = s]
    BY <1>1 DEF Failed
  <2>4. call'[c] = s /\ \A d \in Caller \ {c} : call'[d] = call[d]
    BY <2>3 DEF CallsOK
  <2> HIDE DEF s
  <2> QED
    BY <2>2, <2>3, <2>4, Moves
<1>2. CASE ~(transient /\ call[c].attempt < MaxAttempts)
  BY <1>2, NextPeerRight DEF Failed
<1> QED
  BY <1>1, <1>2

-----------------------------------------------------------------------------
(* The pending table.                                                       *)

(* A new sender has an empty table and no call in progress.                 *)
LEMMA InitTable == Init => TableInv
<1> SUFFICES ASSUME Init PROVE TableInv
  OBVIOUS
<1>1. CallsOK
  BY DhtAssumption DEF Init, CallsOK, CallState, Place, Right
<1>2. TablesOK
  BY DEF Init, TablesOK
<1>3. AnswerIsOwn /\ WaiterListed /\ LeaksOnlyAbandoned
  BY DEF Init, AnswerIsOwn, WaiterListed, LeaksOnlyAbandoned
<1> QED
  BY <1>1, <1>2, <1>3 DEF TableInv

(* A call that changes only its own place, and does not wait before or after. *)
LEMMA Aside ==
    ASSUME TableInv, NEW c \in Caller, CallsOK',
           call[c].pc # "wait", call'[c].pc # "wait",
           \A d \in Caller \ {c} : call'[d] = call[d],
           UNCHANGED <<pending, inbox, abandoned>>,
           asked' \subseteq RequestId, store' \subseteq Provider
    PROVE  TableInv'
<1> USE DEF TableInv, IdOf, PeerOf
<1>1. TablesOK'
  BY DEF TablesOK
<1>2. AnswerIsOwn'
  BY DEF AnswerIsOwn
<1>3. WaiterListed'
  BY DEF WaiterListed
<1>4. LeaksOnlyAbandoned'
  BY DEF LeaksOnlyAbandoned
<1> QED
  BY <1>1, <1>2, <1>3, <1>4

(* A call that stops waiting: its answer is taken out of its channel, or its *)
(* id is abandoned.                                                          *)
LEMMA StopsWaiting ==
    ASSUME TableInv, NEW c \in Caller, CallsOK',
           call[c].pc = "wait", call'[c].pc # "wait",
           \A d \in Caller \ {c} : call'[d] = call[d],
           inbox' = [inbox EXCEPT ![c] = <<>>],
           abandoned' \in SUBSET RequestId, abandoned \subseteq abandoned',
           inbox[c] = <<>> => IdOf(c) \in abandoned',
           UNCHANGED <<pending, asked>>, store' \subseteq Provider
    PROVE  TableInv'
<1> USE DEF TableInv
<1>1. TablesOK'
  BY DEF TablesOK
<1>2. inbox'[c] = <<>> /\ \A d \in Caller \ {c} : inbox'[d] = inbox[d]
  BY DEF TablesOK
<1>3. AnswerIsOwn'
  BY <1>2 DEF AnswerIsOwn, PeerOf
<1>4. WaiterListed'
  BY <1>2 DEF WaiterListed, IdOf
<1>5. LeaksOnlyAbandoned'
  BY <1>2 DEF LeaksOnlyAbandoned, IdOf
<1> QED
  BY <1>1, <1>3, <1>4, <1>5

(* Registering: nothing can have been delivered before.                     *)
LEMMA RegisterTable ==
    ASSUME TableInv, NEW c \in Caller, Register(c) PROVE TableInv'
<1> USE DEF TableInv
<1> DEFINE s == [call[c] EXCEPT !.pc = "wait"]
<1>1. call[c] \in CallState /\ Right(c, call[c]) /\ call[c].pc = "register"
  BY DEF CallsOK, Register
<1>2. s \in CallState /\ Right(c, s)
  BY <1>1 DEF CallState, Place, Right
<1>3. /\ call' = [call EXCEPT ![c] = s]
      /\ pending' = pending \cup {IdOf(c)} /\ inbox' = inbox /\ asked' = asked
      /\ abandoned' = abandoned /\ store' = store
  BY DEF Register
<1>4. /\ call'[c] = s /\ \A d \in Caller \ {c} : call'[d] = call[d]
      /\ s.at = call[c].at /\ s.attempt = call[c].attempt /\ s.pc = "wait"
  BY <1>1, <1>3 DEF CallsOK, CallState
<1> HIDE DEF s
<1>5. CallsOK'
  BY <1>2, <1>3, Moves
<1>6. TablesOK'
  BY <1>1, <1>3, IdTyped DEF TablesOK
<1>7. inbox[c] = <<>>
  BY <1>1 DEF AnswerIsOwn
<1>8. AnswerIsOwn'
  BY <1>3, <1>4, <1>7 DEF AnswerIsOwn, PeerOf
<1>9. IdOf(c)' = IdOf(c) /\ \A d \in Caller \ {c} : IdOf(d)' = IdOf(d)
  BY <1>4 DEF IdOf
<1>10. WaiterListed'
  BY <1>3, <1>4, <1>9 DEF WaiterListed
<1>11. LeaksOnlyAbandoned'
  BY <1>3, <1>4, <1>7, <1>9 DEF LeaksOnlyAbandoned
<1> QED
  BY <1>5, <1>6, <1>8, <1>10, <1>11

(* An answer: it reaches the try it answers if that still waits, and takes  *)
(* its id out of the table in any case.                                     *)
LEMMA ResponseTable ==
    ASSUME TableInv, NEW id \in asked, NEW m \in Answer(id), HandleResponse(m)
    PROVE  TableInv'
<1> USE DEF TableInv
<1>1. m \in Message
  <2>1. id \in RequestId
    BY DEF TablesOK
  <2>2. \E valid \in BOOLEAN, qs \in SUBSET Provider :
            m = [id |-> id, valid |-> valid, providers |-> qs]
    BY DEF Answer
  <2> QED
    BY <2>1, <2>2 DEF Message
<1>2. /\ call' = call /\ pending' = pending \ {m.id} /\ asked' = asked \ {m.id}
      /\ abandoned' = abandoned \ {m.id} /\ store' = store
      /\ inbox' = [c \in Caller |->
                     IF m.id \in pending /\ call[c].pc = "wait" /\ IdOf(c) = m.id
                     THEN <<m>> ELSE inbox[c]]
  BY DEF HandleResponse, Deliver
<1>3. \A c \in Caller : IdOf(c)' = IdOf(c) /\ PeerOf(c)' = PeerOf(c)
  BY <1>2 DEF IdOf, PeerOf
<1>4. CallsOK'
  BY <1>2 DEF CallsOK
<1>5. <<m>> \in Seq(Message) /\ <<m>> # <<>> /\ <<m>>[1] = m
  BY <1>1
<1>6. inbox' \in [Caller -> Seq(Message)]
  BY <1>2, <1>5 DEF TablesOK
<1>7. TablesOK'
  BY <1>2, <1>6 DEF TablesOK
<1>8. ASSUME NEW c \in Caller, call[c].pc = "wait", IdOf(c) = m.id
      PROVE  m.id = <<c, call[c].at, call[c].attempt>>
  BY <1>8 DEF IdOf
<1>9. AnswerIsOwn'
  BY <1>2, <1>3, <1>5, <1>8 DEF AnswerIsOwn
<1>10. WaiterListed'
  BY <1>2, <1>3, <1>5 DEF WaiterListed
<1>11. LeaksOnlyAbandoned'
  BY <1>2, <1>3, <1>5 DEF LeaksOnlyAbandoned
<1> QED
  BY <1>4, <1>7, <1>9, <1>10, <1>11

(* Every step keeps the table right.                                        *)
LEMMA NextTable == TableInv /\ [Next]_vars => TableInv'
<1> SUFFICES ASSUME TableInv, [Next]_vars PROVE TableInv'
  OBVIOUS
<1>0. CallsOK /\ TablesOK
  BY DEF TableInv
<1>1. ASSUME NEW c \in Caller, NEW wired \in BOOLEAN, Find(c, wired) PROVE TableInv'
  <2> DEFINE s == [call[c] EXCEPT !.pc =
                     IF store # {} \/ ~wired \/ Closest[c] = <<>> THEN "returned" ELSE "acquire"]
  <2>1. call[c] \in CallState /\ Right(c, call[c]) /\ call[c].pc = "idle"
    BY <1>0, <1>1 DEF CallsOK, Find
  <2>2. Closest[c] # <<>> => Len(Closest[c]) \in Nat \ {0}
    BY DhtAssumption
  <2>3. s \in CallState /\ Right(c, s) /\ s.pc # "wait"
    BY <2>1, <2>2, DhtAssumption DEF CallState, Place, Right
  <2>4. call' = [call EXCEPT ![c] = s]
    BY <1>1 DEF Find
  <2>5. call'[c] = s /\ \A d \in Caller \ {c} : call'[d] = call[d]
    BY <1>0, <2>4 DEF CallsOK
  <2> HIDE DEF s
  <2>6. CallsOK'
    BY <1>0, <2>3, <2>4, Moves
  <2>7. /\ UNCHANGED <<pending, inbox, abandoned>>
        /\ asked' \subseteq RequestId /\ store' \subseteq Provider
    BY <1>0, <1>1 DEF Find, TablesOK
  <2> QED
    BY <2>1, <2>3, <2>5, <2>6, <2>7, Aside
<1>2. ASSUME NEW c \in Caller, Acquire(c) PROVE TableInv'
  <2>1. /\ UNCHANGED <<pending, inbox, abandoned>>
        /\ asked' \subseteq RequestId /\ store' \subseteq Provider
    BY <1>0, <1>2 DEF Acquire, TablesOK
  <2>2. CASE PeerOf(c) \in cooling
    BY <1>0, <1>2, <2>1, <2>2, NextPeerRight, Aside DEF Acquire
  <2>3. CASE PeerOf(c) \notin cooling
    <3> DEFINE s == [call[c] EXCEPT !.pc = "send", !.attempt = @ + 1]
    <3>1. call[c] \in CallState /\ Right(c, call[c]) /\ call[c].pc = "acquire"
      BY <1>0, <1>2 DEF CallsOK, Acquire
    <3>2. s \in CallState /\ Right(c, s) /\ s.pc # "wait"
      <4>1. call[c].attempt + 1 \in 1..MaxAttempts /\ call[c].attempt + 1 \in 0..MaxAttempts
        BY <3>1, DhtAssumption DEF CallState, Right
      <4>2. /\ s \in [pc : Place, at : {1} \cup Rank, attempt : 0..MaxAttempts]
            /\ s.pc = "send" /\ s.at = call[c].at /\ s.attempt = call[c].attempt + 1
        BY <3>1, <4>1 DEF CallState, Place
      <4> QED
        BY <3>1, <4>1, <4>2 DEF CallState, Right
    <3>3. call' = [call EXCEPT ![c] = s]
      BY <1>0, <1>2, <2>3 DEF Acquire, CallsOK
    <3>4. call'[c] = s /\ \A d \in Caller \ {c} : call'[d] = call[d]
      BY <1>0, <3>3 DEF CallsOK
    <3> HIDE DEF s
    <3>5. CallsOK'
      BY <1>0, <3>2, <3>3, Moves
    <3> QED
      BY <2>1, <3>1, <3>2, <3>4, <3>5, Aside
  <2> QED
    BY <2>2, <2>3
<1>3. ASSUME NEW c \in Caller, Send(c) PROVE TableInv'
  <2> DEFINE s == [call[c] EXCEPT !.pc = "register"]
  <2>1. call[c] \in CallState /\ Right(c, call[c]) /\ call[c].pc = "send"
    BY <1>0, <1>3 DEF CallsOK, Send
  <2>2. s \in CallState /\ Right(c, s) /\ s.pc # "wait"
    BY <2>1 DEF CallState, Place, Right
  <2>3. /\ call' = [call EXCEPT ![c] = s] /\ asked' = asked \cup {IdOf(c)}
        /\ UNCHANGED <<pending, inbox, store, abandoned>>
    BY <1>3 DEF Send, OnTheWire
  <2>4. call'[c] = s /\ \A d \in Caller \ {c} : call'[d] = call[d]
    BY <1>0, <2>3 DEF CallsOK
  <2> HIDE DEF s
  <2>5. CallsOK'
    BY <1>0, <2>2, <2>3, Moves
  <2>6. asked' \subseteq RequestId /\ store' \subseteq Provider
    BY <1>0, <2>1, <2>3, IdTyped DEF TablesOK
  <2> QED
    BY <2>1, <2>2, <2>3, <2>4, <2>5, <2>6, Aside
<1>4. ASSUME NEW c \in Caller, NEW transient \in BOOLEAN, NEW wrote \in BOOLEAN,
             SendFails(c, transient, wrote)
      PROVE  TableInv'
  <2>1. call[c].pc = "send" /\ Failed(c, transient)
    BY <1>4 DEF SendFails
  <2>2. UNCHANGED <<pending, inbox, abandoned>> /\ store' \subseteq Provider
    BY <1>0, <1>4 DEF SendFails, TablesOK
  <2>3. asked' \subseteq RequestId
    BY <1>0, <1>4, <2>1, IdTyped DEF SendFails, OnTheWire, TablesOK
  <2> QED
    BY <1>0, <2>1, <2>2, <2>3, FailedRight, Aside
<1>5. ASSUME NEW c \in Caller, Register(c) PROVE TableInv'
  BY <1>5, RegisterTable
<1>6. ASSUME NEW c \in Caller, Receive(c) PROVE TableInv'
  <2>1. /\ call[c].pc = "wait" /\ inbox[c] # <<>>
        /\ inbox' = [inbox EXCEPT ![c] = <<>>]
        /\ UNCHANGED <<pending, asked, abandoned>>
    BY <1>6 DEF Receive
  <2>2. /\ store' \subseteq Provider
        /\ NextPeer(c) \/ Failed(c, FALSE)
    <3>1. inbox[c] \in Seq(Message)
      BY <1>0 DEF TablesOK
    <3>2. inbox[c][1] \in Message
      BY <2>1, <3>1
    <3> QED
      BY <1>0, <1>6, <3>2 DEF Receive, TablesOK, Message
  <2>3. /\ CallsOK' /\ call'[c].pc # "wait"
        /\ \A d \in Caller \ {c} : call'[d] = call[d]
    BY <1>0, <2>1, <2>2, NextPeerRight, FailedRight
  <2>4. abandoned' \in SUBSET RequestId /\ abandoned \subseteq abandoned'
    BY <1>0, <2>1 DEF TablesOK
  <2> QED
    BY <2>1, <2>2, <2>3, <2>4, StopsWaiting
<1>7. ASSUME NEW c \in Caller, Timeout(c) PROVE TableInv'
  <2>1. /\ call[c].pc = "wait" /\ inbox[c] = <<>> /\ Failed(c, TRUE)
        /\ abandoned' = abandoned \cup {IdOf(c)}
        /\ UNCHANGED <<pending, asked, inbox, store>>
    BY <1>7 DEF Timeout
  <2>2. inbox' = [inbox EXCEPT ![c] = <<>>]
    BY <1>0, <2>1 DEF TablesOK
  <2>3. abandoned' \in SUBSET RequestId /\ store' \subseteq Provider
    BY <1>0, <2>1, IdTyped DEF TablesOK
  <2>4. /\ CallsOK' /\ call'[c].pc # "wait"
        /\ \A d \in Caller \ {c} : call'[d] = call[d]
    BY <1>0, <2>1, FailedRight
  <2> QED
    BY <2>1, <2>2, <2>3, <2>4, StopsWaiting
<1>8. ASSUME NEW c \in Caller, DropCall(c) PROVE TableInv'
  <2> DEFINE s == Returned
  <2>2. s \in CallState /\ Right(c, s) /\ s.pc # "wait"
    BY DhtAssumption DEF CallState, Place, Right, Returned
  <2>3. /\ call' = [call EXCEPT ![c] = s] /\ inbox' = [inbox EXCEPT ![c] = <<>>]
        /\ abandoned' = IF call[c].pc = "wait" THEN abandoned \cup {IdOf(c)} ELSE abandoned
        /\ UNCHANGED <<pending, asked, store>>
    BY <1>8 DEF DropCall
  <2>4. call'[c] = s /\ \A d \in Caller \ {c} : call'[d] = call[d]
    BY <1>0, <2>3 DEF CallsOK
  <2> HIDE DEF s
  <2>5. CallsOK'
    BY <1>0, <2>2, <2>3, Moves
  <2>6. asked' \subseteq RequestId /\ store' \subseteq Provider
    BY <1>0, <2>3 DEF TablesOK
  <2>7. CASE call[c].pc = "wait"
    <3>1. abandoned' \in SUBSET RequestId /\ abandoned \subseteq abandoned' /\ IdOf(c) \in abandoned'
      BY <1>0, <2>3, <2>7, IdTyped DEF TablesOK
    <3> QED
      BY <2>2, <2>3, <2>4, <2>5, <2>6, <2>7, <3>1, StopsWaiting
  <2>8. CASE call[c].pc # "wait"
    <3>1. inbox[c] = <<>>
      BY <2>8 DEF TableInv, AnswerIsOwn
    <3>2. inbox' = inbox
      BY <1>0, <2>3, <3>1 DEF TablesOK
    <3> QED
      BY <2>2, <2>3, <2>4, <2>5, <2>6, <2>8, <3>2, Aside
  <2> QED
    BY <2>7, <2>8
<1>9. ASSUME NEW id \in asked, NEW m \in Answer(id), HandleResponse(m) PROVE TableInv'
  BY <1>9, ResponseTable
<1>10. ASSUME UNCHANGED <<call, pending, inbox, asked, abandoned>>, store' \subseteq Provider
       PROVE  TableInv'
  BY <1>10 DEF TableInv, CallsOK, TablesOK, AnswerIsOwn, WaiterListed,
               LeaksOnlyAbandoned, IdOf, PeerOf
<1>11. ASSUME NEW q \in Provider, AddProvider(q) \/ Expire(q) PROVE TableInv'
  BY <1>0, <1>10, <1>11 DEF AddProvider, Expire, TablesOK
<1>12. ASSUME NEW p \in Peer, CoolsDown(p) PROVE TableInv'
  BY <1>0, <1>10, <1>12 DEF CoolsDown, TablesOK
<1>13. CASE UNCHANGED vars
  BY <1>0, <1>10, <1>13 DEF vars, TablesOK
<1> QED
  BY <1>1, <1>2, <1>3, <1>4, <1>5, <1>6, <1>7, <1>8, <1>9, <1>11, <1>12, <1>13
  DEF Next, CallStep

(* The table of pending requests is right in every reachable state.         *)
LEMMA TableAlways == Spec => []TableInv
BY InitTable, NextTable, PTL DEF Spec

(* AnswerReachesWaiter: whatever a waiting get_providers is answered, it     *)
(* gets, for any number of calls, peers and attempts.                       *)
THEOREM WaiterAnswered == Spec => AnswerReachesWaiter
<1> DEFINE Reached == \A c \in Caller :
             call[c].pc = "wait" /\ IdOf(c) \in asked /\ IdOf(c) \notin asked' => inbox'[c] # <<>>
<1>1. ASSUME TableInv, [Next]_vars, NEW c \in Caller, call[c].pc = "wait",
             IdOf(c) \in asked, IdOf(c) \notin asked'
      PROVE  inbox'[c] # <<>>
  <2>1. ~(asked \subseteq asked')
    BY <1>1
  <2>2. PICK id \in asked : \E m \in Answer(id) : HandleResponse(m)
    <3>1. ASSUME NEW d \in Caller, NEW wired \in BOOLEAN, Find(d, wired) PROVE asked' = asked
      BY <3>1 DEF Find
    <3>2. ASSUME NEW d \in Caller, CallStep(d) \/ DropCall(d) PROVE asked \subseteq asked'
      BY <3>2 DEF CallStep, Acquire, Send, OnTheWire, Register, Receive, Timeout, SendFails, DropCall
    <3>3. ASSUME NEW q, AddProvider(q) \/ Expire(q) \/ CoolsDown(q) PROVE asked' = asked
      BY <3>3 DEF AddProvider, Expire, CoolsDown
    <3>4. CASE UNCHANGED vars
      BY <3>4, <2>1 DEF vars
    <3> QED
      BY <1>1, <2>1, <3>1, <3>2, <3>3, <3>4 DEF Next
  <2>3. PICK m \in Answer(id) : HandleResponse(m)
    BY <2>2
  <2>4. IdOf(c) = m.id
    BY <1>1, <2>3 DEF HandleResponse
  <2>5. inbox'[c] = IF IdOf(c) \in pending THEN <<m>> ELSE inbox[c]
    BY <1>1, <2>3, <2>4 DEF HandleResponse, Deliver
  <2> QED
    BY <1>1, <2>5 DEF TableInv, WaiterListed
<1>2. TableInv /\ [Next]_vars => [Reached]_vars
  BY <1>1
<1> QED
  BY <1>2, TableAlways, PTL DEF Spec, AnswerReachesWaiter

(* AnswerIsOwn: handle_response gives an answer only to the try that asked  *)
(* for it, whoever sent it and however late.                                *)
THEOREM OwnAnswers == Spec => []AnswerIsOwn
<1>1. TableInv => AnswerIsOwn
  BY DEF TableInv
<1> QED
  BY <1>1, TableAlways, PTL

(* LeaksOnlyAbandoned: what stays in the pending table is waited for or was *)
(* abandoned by a timeout or a dropped call.                                *)
THEOREM BoundedLeak == Spec => []LeaksOnlyAbandoned
<1>1. TableInv => LeaksOnlyAbandoned
  BY DEF TableInv
<1> QED
  BY <1>1, TableAlways, PTL

-----------------------------------------------------------------------------
(* The failure tracker.                                                     *)

\* The calls that have passed try_acquire for peer p and not sent yet.
Passed(p) == {c \in Caller : call[c].pc = "send" /\ PeerOf(c) = p}

TrackerOK ==
    /\ failures \in [Peer -> 0..Threshold]
    /\ cooling \subseteq Peer
    /\ late \in [Peer -> Nat]

SparedBy(p) ==
    /\ p \notin cooling => late[p] = 0
    /\ p \in cooling => late[p] + Cardinality(Passed(p)) < Cardinality(Caller)

IInv == TableInv /\ TrackerOK /\ \A p \in Peer : SparedBy(p)

(* Sets of callers can be counted.                                          *)
LEMMA Counting ==
    /\ Cardinality(Caller) \in Nat \ {0}
    /\ \A S \in SUBSET Caller : IsFiniteSet(S) /\ Cardinality(S) \in Nat
    /\ \A S \in SUBSET Caller : \A T \in SUBSET S : Cardinality(T) <= Cardinality(S)
    /\ \A S \in SUBSET Caller : \A c \in S : Cardinality(S \ {c}) = Cardinality(S) - 1
<1>1. IsFiniteSet(Caller) /\ Caller # {}
  BY DhtAssumption
<1>2. \A S \in SUBSET Caller : IsFiniteSet(S)
  BY <1>1, FS_Subset
<1>3. \A S \in SUBSET Caller : Cardinality(S) \in Nat
  BY <1>2, FS_CardinalityType
<1>4. \A S \in SUBSET Caller : \A T \in SUBSET S : Cardinality(T) <= Cardinality(S)
  BY <1>2, FS_Subset
<1>5. \A S \in SUBSET Caller : \A c \in S : Cardinality(S \ {c}) = Cardinality(S) - 1
  BY <1>2, FS_RemoveElement
<1>6. Cardinality(Caller) \in Nat /\ Cardinality(Caller) # 0
  BY <1>1, FS_CardinalityType, FS_EmptySet
<1> QED
  BY <1>2, <1>3, <1>4, <1>5, <1>6

(* A peer that gets no new candidates and no new cooldown stays spared.     *)
LEMMA StaysSpared ==
    ASSUME TrackerOK, TrackerOK', NEW p \in Peer, SparedBy(p),
           Passed(p)' \subseteq Passed(p),
           p \in cooling' => p \in cooling,
           (late'[p] = late[p] /\ (p \in cooling <=> p \in cooling')) \/ late'[p] = 0
    PROVE  SparedBy(p)'
<1>1. /\ Cardinality(Passed(p)) \in Nat /\ Cardinality(Passed(p)') \in Nat
      /\ Cardinality(Passed(p)') <= Cardinality(Passed(p))
  <2>1. Passed(p) \in SUBSET Caller /\ Passed(p)' \in SUBSET Passed(p)
    BY DEF Passed
  <2> QED
    BY <2>1, Counting
<1>2. late[p] \in Nat /\ late'[p] \in Nat /\ Cardinality(Caller) \in Nat
  BY Counting DEF TrackerOK
<1> QED
  BY <1>1, <1>2 DEF SparedBy

(* A failure: the call it belongs to is no longer among those that may send, *)
(* so a cooldown that begins meets at most all the others.                   *)
LEMMA FailureSpared ==
    ASSUME IInv, NEW c \in Caller, call[c].pc \in {"send", "wait"},
           RecordFailure(PeerOf(c)), late' = late,
           call'[c].pc \in {"acquire", "returned"},
           \A d \in Caller \ {c} : call'[d] = call[d]
    PROVE  TrackerOK' /\ \A p \in Peer : SparedBy(p)'
<1> DEFINE q == PeerOf(c)
<1>1. CallsOK /\ TrackerOK
  BY DEF IInv, TableInv
<1>2. q \in Peer
  BY <1>1, IdTyped
<1>3. /\ failures' \in [Peer -> 0..Threshold]
      /\ cooling' = cooling \/ cooling' = cooling \cup {q}
  BY <1>1, <1>2, DhtAssumption DEF RecordFailure, TrackerOK
<1>4. TrackerOK'
  BY <1>1, <1>2, <1>3 DEF TrackerOK
<1>5. \A p \in Peer : Passed(p)' \subseteq Passed(p) /\ Passed(p)' \subseteq Caller \ {c}
  BY DEF Passed, PeerOf
<1>6. ASSUME NEW p \in Peer, p \in cooling' => p \in cooling PROVE SparedBy(p)'
  <2>1. p \in cooling <=> p \in cooling'
    BY <1>3, <1>6
  <2> QED
    BY <1>1, <1>4, <1>5, <1>6, <2>1, StaysSpared DEF IInv
<1>7. ASSUME NEW p \in Peer, p \in cooling', p \notin cooling PROVE SparedBy(p)'
  <2>1. late'[p] = 0
    BY <1>7 DEF IInv, SparedBy
  <2>2. Passed(p)' \in SUBSET (Caller \ {c}) /\ Caller \ {c} \in SUBSET Caller
    BY <1>5
  <2>3. Cardinality(Passed(p)') <= Cardinality(Caller) - 1
    BY <2>2, Counting
  <2>4. Cardinality(Passed(p)') \in Nat /\ Cardinality(Caller) \in Nat
    BY <2>2, Counting
  <2> QED
    BY <1>7, <2>1, <2>3, <2>4 DEF SparedBy
<1> QED
  BY <1>4, <1>6, <1>7

(* A request to a peer in cooldown: its call had passed try_acquire and is  *)
(* not among those that may send any more.                                  *)
LEMMA SentSpared ==
    ASSUME IInv, NEW c \in Caller, NEW q \in Peer, q = PeerOf(c), call[c].pc = "send",
           q \in cooling, cooling' = cooling, failures' \in [Peer -> 0..Threshold],
           late' = [late EXCEPT ![q] = @ + 1],
           call'[c].pc # "send", \A d \in Caller \ {c} : call'[d] = call[d]
    PROVE  TrackerOK' /\ \A p \in Peer : SparedBy(p)'
<1>0. TrackerOK /\ \A p \in Peer : SparedBy(p)
  BY DEF IInv
<1>1. /\ \A p \in Peer : Passed(p)' \subseteq Passed(p)
      /\ Passed(q)' = Passed(q) \ {c} /\ c \in Passed(q) /\ Passed(q) \in SUBSET Caller
  BY DEF Passed, PeerOf
<1>2. /\ TrackerOK' /\ late[q] \in Nat /\ late'[q] = late[q] + 1
      /\ \A p \in Peer \ {q} : late'[p] = late[p]
  BY <1>0 DEF TrackerOK
<1>3. ASSUME NEW p \in Peer, p # q PROVE SparedBy(p)'
  BY <1>0, <1>1, <1>2, <1>3, StaysSpared
<1>4. /\ Cardinality(Passed(q)') = Cardinality(Passed(q)) - 1
      /\ Cardinality(Passed(q)) \in Nat /\ Cardinality(Caller) \in Nat
  BY <1>1, Counting
<1>5. SparedBy(q)'
  BY <1>0, <1>2, <1>4 DEF SparedBy
<1> QED
  BY <1>2, <1>3, <1>5

(* A new tracker knows no failure.                                          *)
LEMMA InitIInv == Init => IInv
<1> SUFFICES ASSUME Init PROVE IInv
  OBVIOUS
<1>1. TableInv
  BY InitTable
<1>2. TrackerOK /\ \A p \in Peer : SparedBy(p)
  BY DhtAssumption DEF Init, TrackerOK, SparedBy
<1> QED
  BY <1>1, <1>2 DEF IInv

(* Every step keeps the table and the tracker right.                        *)
LEMMA NextIInv == IInv /\ [Next]_vars => IInv'
<1> SUFFICES ASSUME IInv, [Next]_vars PROVE TrackerOK' /\ \A p \in Peer : SparedBy(p)'
  BY NextTable DEF IInv
<1>0. /\ CallsOK /\ TablesOK /\ TrackerOK /\ \A p \in Peer : SparedBy(p)
  BY DEF IInv, TableInv
<1> DEFINE Goal == TrackerOK' /\ \A p \in Peer : SparedBy(p)'
<1>1. ASSUME UNCHANGED <<cooling, failures, late>>,
             \A p \in Peer : Passed(p)' \subseteq Passed(p)
      PROVE  Goal
  <2>1. TrackerOK'
    BY <1>0, <1>1 DEF TrackerOK
  <2> QED
    BY <1>0, <1>1, <2>1, StaysSpared
<1>2. ASSUME NEW c \in Caller, call'[c].pc # "send", UNCHANGED <<cooling, failures, late>>,
             \A d \in Caller \ {c} : call'[d] = call[d]
      PROVE  Goal
  <2>1. \A p \in Peer : Passed(p)' \subseteq Passed(p)
    BY <1>2 DEF Passed, PeerOf
  <2> QED
    BY <1>1, <1>2, <2>1
<1>3. ASSUME NEW c \in Caller, NEW wired \in BOOLEAN, Find(c, wired) PROVE Goal
  <2>1. call[c] \in CallState
    BY <1>0 DEF CallsOK
  <2>2. call'[c].pc # "send" /\ \A d \in Caller \ {c} : call'[d] = call[d]
    BY <1>0, <1>3, <2>1 DEF Find, CallsOK, CallState
  <2> QED
    BY <1>2, <1>3, <2>2 DEF Find
<1>4. ASSUME NEW c \in Caller, Acquire(c) PROVE Goal
  <2>1. call[c] \in CallState /\ call[c].pc = "acquire" /\ UNCHANGED <<cooling, failures, late>>
    BY <1>0, <1>4 DEF CallsOK, Acquire
  <2>2. CASE PeerOf(c) \in cooling
    BY <1>0, <1>2, <1>4, <2>1, <2>2, NextPeerRight DEF Acquire
  <2>3. CASE PeerOf(c) \notin cooling
    <3>1. /\ call'[c].at = call[c].at
          /\ \A d \in Caller \ {c} : call'[d] = call[d]
      BY <1>0, <1>4, <2>1, <2>3 DEF Acquire, CallsOK, CallState
    <3>2. TrackerOK'
      BY <1>0, <2>1 DEF TrackerOK
    <3>3. ASSUME NEW p \in Peer, p # PeerOf(c) PROVE SparedBy(p)'
      <4>1. Passed(p)' \subseteq Passed(p)
        BY <3>1, <3>3 DEF Passed, PeerOf
      <4> QED
        BY <1>0, <2>1, <3>2, <4>1, StaysSpared
    <3>4. ASSUME NEW p \in Peer, p = PeerOf(c) PROVE SparedBy(p)'
      BY <1>0, <2>1, <2>3, <3>4 DEF SparedBy
    <3> QED
      BY <3>2, <3>3, <3>4
  <2> QED
    BY <2>2, <2>3
<1>5. ASSUME NEW c \in Caller, Send(c) PROVE Goal
  <2>0. PICK q \in Peer : q = PeerOf(c)
    BY <1>0, <1>5, IdTyped DEF Send
  <2>1. call[c] \in CallState /\ call[c].pc = "send"
    BY <1>0, <1>5 DEF CallsOK, Send
  <2>2. call'[c].pc = "register" /\ \A d \in Caller \ {c} : call'[d] = call[d]
    BY <1>0, <1>5, <2>1 DEF Send, CallsOK, CallState
  <2>3. /\ UNCHANGED <<cooling, failures>>
        /\ late' = IF q \in cooling THEN [late EXCEPT ![q] = @ + 1] ELSE late
    BY <1>5, <2>0 DEF Send, OnTheWire
  <2>4. CASE q \notin cooling
    BY <1>2, <2>2, <2>3, <2>4
  <2>5. CASE q \in cooling
    <3>1. failures' \in [Peer -> 0..Threshold]
      BY <1>0, <2>3 DEF TrackerOK
    <3> QED
      BY <2>0, <2>1, <2>2, <2>3, <2>5, <3>1, SentSpared
  <2> QED
    BY <2>4, <2>5
<1>6. ASSUME NEW c \in Caller, NEW transient \in BOOLEAN, NEW wrote \in BOOLEAN,
             SendFails(c, transient, wrote)
      PROVE  Goal
  <2>0. PICK q \in Peer : q = PeerOf(c)
    BY <1>0, <1>6, IdTyped DEF SendFails
  <2>1. call[c].pc = "send" /\ Failed(c, transient) /\ RecordFailure(q)
    BY <1>6, <2>0 DEF SendFails, Failed
  <2>2. /\ call'[c].pc \in {"acquire", "returned"}
        /\ \A d \in Caller \ {c} : call'[d] = call[d]
    BY <1>0, <2>1, FailedRight
  <2>3. late' = late \/ (q \in cooling /\ late' = [late EXCEPT ![q] = @ + 1])
    BY <1>6, <2>0 DEF SendFails, OnTheWire
  <2>4. CASE late' = late
    BY <2>0, <2>1, <2>2, <2>4, FailureSpared
  <2>5. CASE q \in cooling /\ late' = [late EXCEPT ![q] = @ + 1]
    <3>1. failures' \in [Peer -> 0..Threshold] /\ cooling' = cooling
      BY <1>0, <2>1, <2>5, DhtAssumption DEF RecordFailure, TrackerOK
    <3> QED
      BY <2>0, <2>1, <2>2, <2>5, <3>1, SentSpared
  <2> QED
    BY <2>3, <2>4, <2>5
<1>7. ASSUME NEW c \in Caller, Register(c) PROVE Goal
  <2>1. call'[c].pc # "send" /\ \A d \in Caller \ {c} : call'[d] = call[d]
    BY <1>0, <1>7 DEF Register, CallsOK, CallState
  <2> QED
    BY <1>2, <1>7, <2>1 DEF Register
<1>8. ASSUME NEW c \in Caller, Receive(c) PROVE Goal
  <2>1. call[c].pc = "wait"
    BY <1>8 DEF Receive
  <2>2. CASE inbox[c][1].valid
    <3> DEFINE q == PeerOf(c)
    <3>1. q \in Peer
      BY <1>0, <2>1, IdTyped
    <3>2. /\ failures' = [failures EXCEPT ![q] = 0]
          /\ cooling' = cooling \ {q}
          /\ late' = [late EXCEPT ![q] = 0]
          /\ NextPeer(c)
      BY <1>8, <2>2 DEF Receive, RecordSuccess
    <3>3. \A p \in Peer : Passed(p)' \subseteq Passed(p)
      <4>1. /\ call'[c].pc \in {"acquire", "returned"}
            /\ \A d \in Caller \ {c} : call'[d] = call[d]
        BY <1>0, <2>1, <3>2, NextPeerRight
      <4> QED
        BY <4>1 DEF Passed, PeerOf
    <3> HIDE DEF q
    <3>4. /\ TrackerOK' /\ late'[q] = 0
          /\ \A p \in Peer \ {q} : late'[p] = late[p] /\ (p \in cooling <=> p \in cooling')
      BY <1>0, <3>1, <3>2, DhtAssumption DEF TrackerOK
    <3>5. \A p \in Peer : p \in cooling' => p \in cooling
      BY <3>2
    <3> QED
      BY <1>0, <3>3, <3>4, <3>5, StaysSpared
  <2>3. CASE ~inbox[c][1].valid
    <3>1. Failed(c, FALSE) /\ late' = late
      BY <1>8, <2>3 DEF Receive
    <3>2. /\ call'[c].pc \in {"acquire", "returned"}
          /\ \A d \in Caller \ {c} : call'[d] = call[d]
      BY <1>0, <2>1, <3>1, FailedRight
    <3> QED
      BY <2>1, <3>1, <3>2, FailureSpared DEF Failed
  <2> QED
    BY <2>2, <2>3
<1>9. ASSUME NEW c \in Caller, Timeout(c) PROVE Goal
  <2>1. call[c].pc = "wait" /\ Failed(c, TRUE) /\ late' = late
    BY <1>9 DEF Timeout
  <2>2. /\ call'[c].pc \in {"acquire", "returned"}
        /\ \A d \in Caller \ {c} : call'[d] = call[d]
    BY <1>0, <2>1, FailedRight
  <2> QED
    BY <2>1, <2>2, FailureSpared DEF Failed
<1>10. ASSUME NEW c \in Caller, DropCall(c) PROVE Goal
  <2>1. call'[c].pc # "send" /\ \A d \in Caller \ {c} : call'[d] = call[d]
    BY <1>0, <1>10 DEF DropCall, CallsOK, CallState, Returned
  <2> QED
    BY <1>2, <1>10, <2>1 DEF DropCall
<1>11. ASSUME UNCHANGED <<call, cooling, failures, late>> PROVE Goal
  BY <1>1, <1>11 DEF Passed, PeerOf
<1>12. ASSUME NEW id \in asked, NEW m \in Answer(id), HandleResponse(m) PROVE Goal
  BY <1>11, <1>12 DEF HandleResponse
<1>13. ASSUME NEW q \in Provider, AddProvider(q) \/ Expire(q) PROVE Goal
  BY <1>11, <1>13 DEF AddProvider, Expire
<1>14. ASSUME NEW q \in Peer, CoolsDown(q) PROVE Goal
  <2>1. call' = call /\ failures' = failures /\ cooling' = cooling \ {q} /\ late' = [late EXCEPT ![q] = 0]
    BY <1>14 DEF CoolsDown
  <2>2. \A p \in Peer : Passed(p)' \subseteq Passed(p)
    BY <2>1 DEF Passed, PeerOf
  <2>3. /\ TrackerOK' /\ late'[q] = 0
        /\ \A p \in Peer \ {q} : late'[p] = late[p] /\ (p \in cooling <=> p \in cooling')
    BY <1>0, <2>1 DEF TrackerOK
  <2>4. \A p \in Peer : p \in cooling' => p \in cooling
    BY <2>1
  <2> QED
    BY <1>0, <2>2, <2>3, <2>4, StaysSpared
<1>15. CASE UNCHANGED vars
  BY <1>11, <1>15 DEF vars
<1> QED
  BY <1>3, <1>4, <1>5, <1>6, <1>7, <1>8, <1>9, <1>10, <1>12, <1>13, <1>14, <1>15
  DEF Next, CallStep

(* The table and the tracker are right in every reachable state.            *)
LEMMA IInvAlways == Spec => []IInv
BY InitIInv, NextIInv, PTL DEF Spec

(* The invariant bounds the requests sent to a peer during its cooldown.    *)
LEMMA LateBounded ==
    ASSUME IInv, NEW p \in Peer
    PROVE  late[p] \in Nat /\ late[p] < Cardinality(Caller)
<1>1. late[p] \in Nat /\ Cardinality(Caller) \in Nat \ {0}
  BY Counting DEF IInv, TrackerOK
<1>2. Passed(p) \in SUBSET Caller
  BY DEF Passed
<1>3. Cardinality(Passed(p)) \in Nat
  BY <1>2, Counting
<1> QED
  BY <1>1, <1>3 DEF IInv, SparedBy

(* TypeOK: the calls, the tables and the tracker have their types; a call   *)
(* makes no more than max_attempts tries and asks only its closest peers.   *)
THEOREM TypeCorrect == Spec => []TypeOK
<1>1. ASSUME IInv PROVE TypeOK
  <2>1. late \in [Peer -> 0..Cardinality(Caller)]
    <3>1. \A p \in Peer : late[p] \in 0..Cardinality(Caller)
      BY <1>1, LateBounded, Counting
    <3> QED
      BY <1>1, <3>1 DEF IInv, TrackerOK
  <2>2. call \in [Caller -> CallState] /\ TablesOK /\ TrackerOK
    BY <1>1 DEF IInv, TableInv, CallsOK
  <2> QED
    BY <2>1, <2>2 DEF TypeOK, CallState, TablesOK, Message, TrackerOK
<1> QED
  BY <1>1, IInvAlways, PTL

(* PeerSpared: during a cooldown a peer gets at most one request of every   *)
(* call but the one whose failure began it.                                 *)
THEOREM CooldownSpares == Spec => []PeerSpared
<1>1. IInv => PeerSpared
  BY LateBounded DEF PeerSpared
<1> QED
  BY <1>1, IInvAlways, PTL
=============================================================================
