---------------------------- MODULE DhtRequests -----------------------------
(***************************************************************************)
(* DhtNode::find_providers and the requests it makes (node.rs, network.rs, *)
(* retry.rs).  A call that finds nothing in the local store asks the       *)
(* closest peers one after the other.  A request to a peer is tried a few  *)
(* times; each try has a new request id, is sent first and entered in the  *)
(* table of pending requests afterwards, and waits for the answer up to a  *)
(* timeout.  The tracker shared by all calls counts the failures of a peer *)
(* and refuses it during a cooldown.                                       *)
(*                                                                         *)
(* Answers may be lost or late.  Time is left open: a timeout, the end of  *)
(* a cooldown and the expiry of a record may come at any moment, so every  *)
(* choice of the policy's durations is covered.  A call makes one find.    *)
(***************************************************************************)
EXTENDS Naturals, Sequences, FiniteSets

CONSTANTS Caller,       \* tasks that call find_providers for the same key
          Peer,
          Closest,      \* the peers each call asks, nearest first (at most alpha = 3);
                        \* the routing table may change between two calls
          Provider,     \* providers of the key
          MaxAttempts,  \* RetryPolicy::max_attempts
          Threshold     \* RetryPolicy::peer_cooldown_threshold

ASSUME DhtAssumption ==
    /\ Closest \in [Caller -> Seq(Peer)]
    /\ IsFiniteSet(Caller) /\ Caller # {}
    /\ MaxAttempts \in Nat \ {0}
    /\ Threshold \in Nat \ {0}

VARIABLES call,       \* each find_providers: its place, the peer and the attempt it is at
          pending,    \* request ids in DhtNetworkSender::pending
          inbox,      \* the channel of a waiting request: the answer, or nothing
          asked,      \* ids of the requests that are on the wire or with the peer
          failures,   \* PeerFailureTracker: consecutive failures, up to Threshold
          cooling,    \* PeerFailureTracker: peers whose cooldown_until lies ahead
          store,      \* the unexpired provider records of the key
          abandoned,  \* history: ids whose wait ended and whose answer has not come since
          late        \* history: requests sent to a peer during its cooldown

vars == <<call, pending, inbox, asked, failures, cooling, store, abandoned, late>>

Rank == UNION {1..Len(Closest[c]) : c \in Caller}
RequestId == Caller \X Rank \X (1..MaxAttempts)

\* handle_get_providers: the records in the peer's store; or a message of another type.
\* Who sent it is not part of it: handle_response matches the id and nothing else.
Answer(id) ==
    {[id |-> id, valid |-> TRUE, providers |-> qs] : qs \in SUBSET Provider}
      \cup {[id |-> id, valid |-> FALSE, providers |-> {}]}

Place == {"idle", "acquire", "send", "register", "wait", "returned"}

TypeOK ==
    /\ call \in [Caller -> [pc : Place, at : {1} \cup Rank, attempt : 0..MaxAttempts]]
    /\ pending \subseteq RequestId
    /\ inbox \in [Caller -> Seq([id : RequestId, valid : BOOLEAN, providers : SUBSET Provider])]
    /\ asked \subseteq RequestId
    /\ failures \in [Peer -> 0..Threshold]
    /\ cooling \subseteq Peer
    /\ store \subseteq Provider
    /\ abandoned \subseteq RequestId
    /\ late \in [Peer -> 0..Cardinality(Caller)]

Init ==
    /\ call = [c \in Caller |-> [pc |-> "idle", at |-> 1, attempt |-> 0]]
    /\ pending = {}
    /\ inbox = [c \in Caller |-> <<>>]
    /\ asked = {}
    /\ failures = [p \in Peer |-> 0]
    /\ cooling = {}
    /\ store = {}
    /\ abandoned = {}
    /\ late = [p \in Peer |-> 0]

-----------------------------------------------------------------------------
(* The call, its retry loop and the failure tracker.                        *)

\* A mutant of IdOf: the attempts of a request share one id.
IdOfRequest(c) == <<c, call[c].at, 1>>

\* A fresh id per attempt; no two attempts of all calls have the same.
IdOf(c) == <<c, call[c].at, call[c].attempt>>

PeerOf(c) == Closest[c][call[c].at]

\* The future is gone, and with it the place of its loops.
Returned == [pc |-> "returned", at |-> 1, attempt |-> 0]

\* On to the next peer, or the end of the loop over the closest ones.
NextPeer(c) ==
    call' = [call EXCEPT ![c] = IF @.at < Len(Closest[c])
                                THEN [pc |-> "acquire", at |-> @.at + 1, attempt |-> 0]
                                ELSE Returned]

\* A node without a network sender looks only into its own store.
Find(c, wired) ==
    /\ call[c].pc = "idle"
    /\ call' = [call EXCEPT ![c].pc =
                  IF store # {} \/ ~wired \/ Closest[c] = <<>> THEN "returned" ELSE "acquire"]
    /\ UNCHANGED <<pending, inbox, asked, failures, cooling, store, abandoned, late>>

\* Mutants of Acquire: the cooldown is ignored; the cooldown is waited for.
AcquireAlways(c) ==
    /\ call[c].pc = "acquire"
    /\ call' = [call EXCEPT ![c].pc = "send", ![c].attempt = @ + 1]
    /\ UNCHANGED <<pending, inbox, asked, failures, cooling, store, abandoned, late>>

AcquireWaits(c) ==
    /\ AcquireAlways(c)
    /\ PeerOf(c) \notin cooling

\* try_acquire; a peer in cooldown ends the request with an error.
Acquire(c) ==
    /\ call[c].pc = "acquire"
    /\ IF PeerOf(c) \in cooling
       THEN NextPeer(c)
       ELSE call' = [call EXCEPT ![c].pc = "send", ![c].attempt = @ + 1]
    /\ UNCHANGED <<pending, inbox, asked, failures, cooling, store, abandoned, late>>

RecordSuccess(p) ==
    /\ failures' = [failures EXCEPT ![p] = 0]
    /\ cooling' = cooling \ {p}
    /\ late' = [late EXCEPT ![p] = 0]

RecordFailure(p) ==
    /\ failures' = [failures EXCEPT ![p] = IF @ < Threshold THEN @ + 1 ELSE @]
    /\ cooling' = IF failures'[p] = Threshold THEN cooling \cup {p} ELSE cooling

\* A mutant of Failed: should_retry is not asked.
FailedAgain(c, transient) ==
    /\ RecordFailure(PeerOf(c))
    /\ IF transient THEN call' = [call EXCEPT ![c].pc = "acquire"] ELSE NextPeer(c)

\* The failed end of an attempt: a transient error is retried after a backoff.
Failed(c, transient) ==
    /\ RecordFailure(PeerOf(c))
    /\ IF transient /\ call[c].attempt < MaxAttempts
       THEN call' = [call EXCEPT ![c].pc = "acquire"]
       ELSE NextPeer(c)

\* The request leaves for the peer.
OnTheWire(c) ==
    LET p == PeerOf(c) IN
    /\ asked' = asked \cup {IdOf(c)}
    /\ late' = IF p \in cooling THEN [late EXCEPT ![p] = @ + 1] ELSE late

Send(c) ==
    /\ call[c].pc = "send"
    /\ OnTheWire(c)
    /\ call' = [call EXCEPT ![c].pc = "register"]
    /\ UNCHANGED <<pending, inbox, failures, cooling, store, abandoned>>

\* The transport reports an error: Network and Timeout are transient, PeerNotFound is
\* not.  The bytes may have gone out before the error, as when reading the reply fails.
SendFails(c, transient, wrote) ==
    /\ call[c].pc = "send"
    /\ IF wrote THEN OnTheWire(c) ELSE UNCHANGED <<asked, late>>
    /\ Failed(c, transient)
    /\ UNCHANGED <<pending, inbox, store, abandoned>>

Register(c) ==
    /\ call[c].pc = "register"
    /\ pending' = pending \cup {IdOf(c)}
    /\ call' = [call EXCEPT ![c].pc = "wait"]
    /\ UNCHANGED <<inbox, asked, failures, cooling, store, abandoned, late>>

\* The answer is there: its records go to the local store, also to be found next time.
Receive(c) ==
    /\ call[c].pc = "wait" /\ inbox[c] # <<>>
    /\ inbox' = [inbox EXCEPT ![c] = <<>>]
    /\ IF inbox[c][1].valid
       THEN /\ RecordSuccess(PeerOf(c))
            /\ store' = store \cup inbox[c][1].providers
            /\ NextPeer(c)
       ELSE Failed(c, FALSE) /\ UNCHANGED <<store, late>>
    /\ UNCHANGED <<pending, asked, abandoned>>

\* Nobody takes the id out of the table.
Timeout(c) ==
    /\ call[c].pc = "wait" /\ inbox[c] = <<>>
    /\ Failed(c, TRUE)
    /\ abandoned' = abandoned \cup {IdOf(c)}
    /\ UNCHANGED <<pending, inbox, asked, store, late>>

\* The caller drops the future at one of its awaits.
DropCall(c) ==
    /\ call[c].pc \in {"acquire", "send", "register", "wait"}
    /\ call' = [call EXCEPT ![c] = Returned]
    /\ inbox' = [inbox EXCEPT ![c] = <<>>]
    /\ abandoned' = IF call[c].pc = "wait" THEN abandoned \cup {IdOf(c)} ELSE abandoned
    /\ UNCHANGED <<pending, asked, failures, cooling, store, late>>

-----------------------------------------------------------------------------
(* The network, the peers and the clock.  An answer that is lost is one that *)
(* never arrives; what it says is chosen when it does.                       *)

Deliver(m) ==
    inbox' = [c \in Caller |->
                IF m.id \in pending /\ call[c].pc = "wait" /\ IdOf(c) = m.id
                THEN <<m>> ELSE inbox[c]]

\* Mutants of HandleResponse: the entry stays; an answer of the wrong type is swallowed.
HandleResponseKeeps(m) ==
    /\ asked' = asked \ {m.id}
    /\ Deliver(m)
    /\ UNCHANGED <<call, pending, failures, cooling, store, abandoned, late>>

HandleResponseFilters(m) ==
    /\ asked' = asked \ {m.id}
    /\ pending' = pending \ {m.id}
    /\ abandoned' = abandoned \ {m.id}
    /\ IF m.valid THEN Deliver(m) ELSE UNCHANGED inbox
    /\ UNCHANGED <<call, failures, cooling, store, late>>

\* An answer whose id is not in the table is dropped; if the receiver is gone, so is it.
HandleResponse(m) ==
    /\ asked' = asked \ {m.id}
    /\ pending' = pending \ {m.id}
    /\ abandoned' = abandoned \ {m.id}
    /\ Deliver(m)
    /\ UNCHANGED <<call, failures, cooling, store, late>>

\* announce_content on this node, or the AddProvider of another one.
AddProvider(q) ==
    /\ q \notin store
    /\ store' = store \cup {q}
    /\ UNCHANGED <<call, pending, inbox, asked, failures, cooling, abandoned, late>>

Expire(q) ==
    /\ q \in store
    /\ store' = store \ {q}
    /\ UNCHANGED <<call, pending, inbox, asked, failures, cooling, abandoned, late>>

CoolsDown(p) ==
    /\ p \in cooling
    /\ cooling' = cooling \ {p}
    /\ late' = [late EXCEPT ![p] = 0]
    /\ UNCHANGED <<call, pending, inbox, asked, failures, store, abandoned>>

CallStep(c) ==
    \/ Acquire(c) \/ Send(c) \/ Register(c) \/ Receive(c) \/ Timeout(c)
    \/ \E transient, wrote \in BOOLEAN : SendFails(c, transient, wrote)

Next ==
    \/ \E c \in Caller : (\E wired \in BOOLEAN : Find(c, wired)) \/ CallStep(c) \/ DropCall(c)
    \/ \E id \in asked : \E m \in Answer(id) : HandleResponse(m)
    \/ \E q \in Provider : AddProvider(q) \/ Expire(q)
    \/ \E p \in Peer : CoolsDown(p)

(* Fairness: the runtime polls a call and its timer fires, and send_to      *)
(* returns, which the timeouts of the transports' bridges see to.  The       *)
(* network and the peers owe nothing, and a cooldown need not end.           *)
Spec == Init /\ [][Next]_vars /\ \A c \in Caller : WF_vars(CallStep(c))

-----------------------------------------------------------------------------
(* Properties.                                                               *)

\* An answer that arrives while its call waits reaches it: whatever late answers,
\* timeouts and other calls did to the table, and whatever the answer says.  The
\* answer that overtakes the registration is the one that is lost (AnswersCorrelated).
AnswerReachesWaiter ==
    [][\A c \in Caller :
          call[c].pc = "wait" /\ IdOf(c) \in asked /\ IdOf(c) \notin asked' => inbox'[c] # <<>>]_vars

\* An answer is taken only by the attempt it answers, never a late one to an earlier
\* attempt, nor one to another call.
AnswerIsOwn ==
    \A c \in Caller : inbox[c] # <<>> =>
        call[c].pc = "wait" /\ inbox[c][1].id = <<c, call[c].at, call[c].attempt>>

\* What the comment on the sender says: the request id is in the table before the bytes
\* go on the wire, and the answer is correlated back.  A call that waits has its answer,
\* or its answer is still to come.
AnswersCorrelated ==
    \A c \in Caller : call[c].pc = "wait" => inbox[c] # <<>> \/ IdOf(c) \in asked

\* The table grows only by requests that are waited for or whose wait ended without
\* an answer: an answer, even an invalid or a late one, takes its id out.
LeaksOnlyAbandoned ==
    \A id \in pending :
        \/ id \in abandoned
        \/ \E c \in Caller : call[c].pc = "wait" /\ IdOf(c) = id /\ inbox[c] = <<>>

\* A peer in cooldown is spared: it still gets the requests of the other calls that
\* had passed try_acquire when it began, one each, and no retry of any call.
PeerSpared == \A p \in Peer : late[p] < Cardinality(Caller)

\* Every find_providers returns, whatever the network and the peers do.
CallReturns == \A c \in Caller : call[c].pc = "acquire" ~> call[c].pc = "returned"
=============================================================================
