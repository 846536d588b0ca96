------------------------ MODULE ConversationTurnProofs ------------------------
(***************************************************************************)
(* The safety properties of ConversationTurn, for any number of posts and  *)
(* of restarts.                                                            *)
(***************************************************************************)
EXTENDS ConversationTurn, FiniteSetTheorems, TLAPS

Messages == [role : {"user", "assistant"}, turn : Turns]

\* What TurnIInv says of one turn, given the messages of it.
TurnOK(post, w, recorded, asked, replies) ==
    /\ Cardinality(replies) <= 1
    /\ \A i \in replies : \E j \in asked : j < i
    /\ recorded = "completed" => replies # {}
    /\ post \in {"none", "creating"} => w = "none" /\ replies = {}
    /\ post = "failed" => w # "armed"
    /\ w = "armed" => asked # {} /\ replies = {}

\* TurnOK of turn n in a state.
Fine(n) ==
    TurnOK(posts[n], watch[n], conv.turns[n], MessagesOf("user", n), MessagesOf("assistant", n))

\* The invariant, turn by turn.
LEMMA IInvByTurn ==
    TurnIInv <=> /\ TypeOK
                 /\ RunningHasSession
                 /\ conv.status = "running" => conv.session \in Turns
                 /\ \A n \in Turns : Fine(n)
  BY DEF TurnIInv, TurnInv, OneReply, WatchedIsStored, WatchedIsUnanswered, Fine, TurnOK

\* A turn has at most one reply if it had none and gets one.
LEMMA AtMostOne ==
    /\ Cardinality({}) <= 1
    /\ \A x : Cardinality({x}) <= 1
  <1>1. Cardinality({}) = 0
    BY FS_EmptySet
  <1>2. \A x : Cardinality({x}) = 1
    BY FS_Singleton
  <1>3. QED
    BY <1>1, <1>2

\* A message that is stored is the last one, and of its own turn only.
LEMMA MessageStored ==
    ASSUME TypeOK, NEW m \in Messages, conv'.messages = Append(conv.messages, m)
    PROVE  /\ Len(conv.messages) + 1 \in Nat
           /\ \A role, n :
                /\ MessagesOf(role, n) \subseteq 1 .. Len(conv.messages)
                /\ m # Message(role, n) => MessagesOf(role, n)' = MessagesOf(role, n)
                /\ m = Message(role, n) =>
                      MessagesOf(role, n)' = MessagesOf(role, n) \union {Len(conv.messages) + 1}
  <1> DEFINE old == conv.messages
  <1> DEFINE new == Append(old, m)
  <1>1. old \in Seq(Messages)
    BY DEF TypeOK, Messages
  <1>2. /\ Len(old) \in Nat /\ DOMAIN old = 1 .. Len(old)
        /\ DOMAIN new = 1 .. Len(old) + 1
        /\ \A i \in 1 .. Len(old) : new[i] = old[i]
        /\ new[Len(old) + 1] = m
    BY <1>1
  <1> HIDE DEF old, new
  <1>3. \A role, n : MessagesOf(role, n) = {i \in DOMAIN old : old[i] = Message(role, n)}
    BY DEF MessagesOf, old
  <1>4. \A role, n : MessagesOf(role, n)' = {i \in DOMAIN new : new[i] = Message(role, n)}
    BY DEF MessagesOf, new, old, Message
  <1>5. \A role, n :
          /\ m # Message(role, n) => MessagesOf(role, n)' = MessagesOf(role, n)
          /\ m = Message(role, n) =>
                MessagesOf(role, n)' = MessagesOf(role, n) \union {Len(old) + 1}
    <2> SUFFICES ASSUME NEW role, NEW n
                 PROVE  /\ m # Message(role, n) => MessagesOf(role, n)' = MessagesOf(role, n)
                        /\ m = Message(role, n) =>
                              MessagesOf(role, n)' = MessagesOf(role, n) \union {Len(old) + 1}
      OBVIOUS
    <2>1. \A i : i \in DOMAIN new <=> i \in DOMAIN old \/ i = Len(old) + 1
      BY <1>2
    <2>2. \A i \in DOMAIN old : i # Len(old) + 1 /\ new[i] = old[i]
      BY <1>2
    <2>3. \A i : i \in MessagesOf(role, n)' <=>
                   i \in MessagesOf(role, n) \/ (i = Len(old) + 1 /\ m = Message(role, n))
      BY <1>2, <1>3, <1>4, <2>1, <2>2
    <2>4. QED
      BY <2>3
  <1>6. QED
    BY <1>2, <1>3, <1>5 DEF old

\* Where no message is stored a turn's messages stay what they are.
LEMMA MessagesKept ==
    ASSUME conv'.messages = conv.messages
    PROVE  \A role, n : MessagesOf(role, n)' = MessagesOf(role, n)
  BY DEF MessagesOf, Message

-----------------------------------------------------------------------------

\* The parts of the stored conversation.
LEMMA ConvShape ==
    ASSUME TypeOK
    PROVE  /\ conv = [session |-> conv.session, status |-> conv.status, turns |-> conv.turns,
                      messages |-> conv.messages]
           /\ conv.session \in 0 .. MaxPosts
           /\ conv.status \in Statuses
           /\ conv.turns \in [Turns -> {"none", "running", "completed", "errored", "cancelled"}]
           /\ conv.messages \in Seq(Messages)
  BY DEF TypeOK, Messages

\* Steps of a handler that store nothing, and those of the user and the runtime that
\* only move the session.
LEMMA QuietSteps ==
    ASSUME TurnIInv, NEW n \in Turns,
           \/ Post(n) \/ CreateFails(n) \/ PromptArrives(n) \/ SendReturns(n)
           \/ \E end \in {"denied", "cancelled"} : Interrupt(n, end)
    PROVE  TurnIInv'
  <1>1. TypeOK /\ \A k \in Turns : Fine(k)
    BY IInvByTurn
  <1>2. UNCHANGED <<conv, watch>>
    BY DEF Post, CreateFails, PromptArrives, SendReturns, Interrupt
  <1>3. TypeOK'
    <2>1. CASE Post(n) \/ CreateFails(n) \/ SendReturns(n)
      BY <1>1, <2>1 DEF TypeOK, Post, CreateFails, SendReturns
    <2>2. CASE PromptArrives(n)
      BY <1>1, <2>2 DEF TypeOK, PromptArrives
    <2>3. CASE \E end \in {"denied", "cancelled"} : Interrupt(n, end)
      BY <1>1, <2>3 DEF TypeOK, Interrupt, Ends
    <2>4. QED
      BY <2>1, <2>2, <2>3
  <1>4. /\ \A k \in Turns : posts'[k] # posts[k] =>
              \/ posts[k] = "none" /\ posts'[k] \in {"rejected", "creating"}
              \/ posts[k] = "creating" /\ posts'[k] = "failed"
              \/ posts'[k] = "accepted"
    BY <1>1 DEF TypeOK, Post, CreateFails, PromptArrives, SendReturns, Interrupt
  <1>5. \A k \in Turns : sess'[k].view = "absent" => sess[k].view = "absent"
    BY <1>1 DEF TypeOK, Post, CreateFails, PromptArrives, SendReturns, Interrupt
  <1>6. ASSUME NEW k \in Turns PROVE Fine(k)'
    <2>1. MessagesOf("user", k)' = MessagesOf("user", k)
          /\ MessagesOf("assistant", k)' = MessagesOf("assistant", k)
      BY <1>2, MessagesKept
    <2>2. QED
      BY <1>1, <1>2, <1>4, <2>1 DEF Fine, TurnOK
  <1>7. RunningHasSession' /\ (conv.status = "running" => conv.session \in Turns)'
    BY <1>2, <1>5, IInvByTurn DEF RunningHasSession
  <1>8. QED
    BY <1>3, <1>6, <1>7
      DEF TurnIInv, TurnInv, OneReply, WatchedIsStored, WatchedIsUnanswered, Fine, TurnOK

\* The turn is stored and watched.
LEMMA CreateReturnsInv ==
    ASSUME TurnIInv, NEW n \in Turns, CreateReturns(n)
    PROVE  TurnIInv'
  <1>1. TypeOK /\ \A k \in Turns : Fine(k)
    BY IInvByTurn
  <1>2. /\ conv'.messages = Append(conv.messages, Message("user", n))
        /\ conv'.session = n /\ conv'.status = "running"
        /\ conv'.turns = [conv.turns EXCEPT ![n] = "running"]
        /\ DOMAIN conv' = DOMAIN conv
    BY <1>1, ConvShape DEF CreateReturns
  <1>3. Message("user", n) \in Messages /\ \A k : Message("user", n) # Message("assistant", k)
    BY DEF Message, Messages
  <1>4. TypeOK'
    <2>1. conv'.messages \in Seq(Messages)
      BY <1>1, <1>2, <1>3, ConvShape
    <2>2. /\ conv'.session \in 0 .. MaxPosts /\ conv'.status \in Statuses
          /\ conv'.turns \in [Turns -> {"none", "running", "completed", "errored", "cancelled"}]
      BY <1>1, <1>2, ConvShape, TurnAssumption DEF Statuses, Turns
    <2>3. conv' = [session |-> conv'.session, status |-> conv'.status, turns |-> conv'.turns,
                   messages |-> conv'.messages]
      BY <1>1, ConvShape DEF CreateReturns
    <2>4. conv' \in [session : 0 .. MaxPosts, status : Statuses,
                     turns : [Turns -> {"none", "running", "completed", "errored", "cancelled"}],
                     messages : Seq(Messages)]
      BY <2>1, <2>2, <2>3
    <2>5. /\ watch' = [watch EXCEPT ![n] = "armed"] /\ posts' = [posts EXCEPT ![n] = "sending"]
          /\ sess' = [sess EXCEPT ![n].view = "none"] /\ restarts' = restarts
      BY DEF CreateReturns
    <2>6. QED
      BY <1>1, <2>4, <2>5 DEF TypeOK, Messages
  <1>5. ASSUME NEW k \in Turns PROVE Fine(k)'
    <2>1. MessagesOf("assistant", k)' = MessagesOf("assistant", k)
      BY <1>1, <1>2, <1>3, MessageStored
    <2>2. MessagesOf("user", k) \subseteq MessagesOf("user", k)'
      BY <1>1, <1>2, <1>3, MessageStored
    <2>3. k = n => MessagesOf("user", k)' # {}
      BY <1>1, <1>2, <1>3, MessageStored
    <2>4. k # n => posts'[k] = posts[k] /\ watch'[k] = watch[k] /\ conv'.turns[k] = conv.turns[k]
      BY <1>1, <1>2, ConvShape DEF TypeOK, CreateReturns
    <2>5. k = n => /\ posts[k] = "creating" /\ posts'[k] = "sending" /\ watch'[k] = "armed"
                   /\ conv'.turns[k] = "running"
      BY <1>1, <1>2, ConvShape DEF TypeOK, CreateReturns
    <2>6. QED
      BY <1>1, <2>1, <2>2, <2>3, <2>4, <2>5 DEF Fine, TurnOK
  <1>6. RunningHasSession' /\ (conv.status = "running" => conv.session \in Turns)'
    BY <1>1, <1>2 DEF RunningHasSession, CreateReturns, TypeOK
  <1>7. QED
    BY <1>4, <1>5, <1>6
      DEF TurnIInv, TurnInv, OneReply, WatchedIsStored, WatchedIsUnanswered, Fine, TurnOK

\* The turn is answered with an error, and nobody watches it any more.
LEMMA SendFailsInv ==
    ASSUME TurnIInv, NEW n \in Turns, SendFails(n)
    PROVE  TurnIInv'
  <1>1. TypeOK /\ \A k \in Turns : Fine(k)
    BY IInvByTurn
  <1>2. /\ conv'.messages = conv.messages /\ conv'.session = conv.session
        /\ conv'.status = "errored" /\ conv'.turns = [conv.turns EXCEPT ![n] = "errored"]
    BY <1>1, ConvShape DEF SendFails
  <1>3. TypeOK'
    BY <1>1, ConvShape DEF TypeOK, SendFails, Statuses
  <1>4. ASSUME NEW k \in Turns PROVE Fine(k)'
    <2>1. MessagesOf("user", k)' = MessagesOf("user", k)
          /\ MessagesOf("assistant", k)' = MessagesOf("assistant", k)
      BY <1>2, MessagesKept
    <2>2. k # n => posts'[k] = posts[k] /\ watch'[k] = watch[k] /\ conv'.turns[k] = conv.turns[k]
      BY <1>1, <1>2, ConvShape DEF TypeOK, SendFails
    <2>3. k = n => posts'[k] = "failed" /\ watch'[k] = "done" /\ conv'.turns[k] = "errored"
      BY <1>1, <1>2, ConvShape DEF TypeOK, SendFails
    <2>4. QED
      BY <1>1, <2>1, <2>2, <2>3 DEF Fine, TurnOK
  <1>5. RunningHasSession' /\ (conv.status = "running" => conv.session \in Turns)'
    BY <1>2 DEF RunningHasSession
  <1>6. QED
    BY <1>3, <1>4, <1>5
      DEF TurnIInv, TurnInv, OneReply, WatchedIsStored, WatchedIsUnanswered, Fine, TurnOK

\* finalize stores the reply of a watched turn, once, whatever ends it.
LEMMA FinalizeInv ==
    ASSUME TurnIInv, NEW n \in Turns, NEW end, Finalize(n, end), UNCHANGED <<posts, restarts>>,
           sess' \in [Turns -> [view : {"absent", "none"} \union Ends,
                               turn : {"none", "running", "over"}]],
           \A k \in Turns : sess'[k].view = "absent" => sess[k].view = "absent"
    PROVE  TurnIInv'
  <1>1. TypeOK /\ RunningHasSession /\ (conv.status = "running" => conv.session \in Turns)
        /\ \A k \in Turns : Fine(k)
    BY IInvByTurn
  <1>2. CASE watch[n] # "armed"
    <2>1. UNCHANGED <<conv, watch>>
      BY <1>2 DEF Finalize
    <2>2. TypeOK'
      BY <1>1, <2>1 DEF TypeOK
    <2>3. ASSUME NEW k \in Turns PROVE Fine(k)'
      BY <1>1, <2>1, MessagesKept DEF Fine, TurnOK
    <2>4. RunningHasSession' /\ (conv.status = "running" => conv.session \in Turns)'
      BY <1>1, <2>1 DEF RunningHasSession
    <2>5. QED
      BY <2>2, <2>3, <2>4
      DEF TurnIInv, TurnInv, OneReply, WatchedIsStored, WatchedIsUnanswered, Fine, TurnOK
  <1>3. CASE watch[n] = "armed"
    <2>1. TurnStatus(end) \in {"completed", "errored", "cancelled"}
      BY DEF TurnStatus
    <2>2. /\ conv'.messages = Append(conv.messages, Message("assistant", n))
          /\ conv'.session = conv.session
          /\ conv'.status = IF conv.session = n THEN TurnStatus(end) ELSE conv.status
          /\ conv'.turns = [conv.turns EXCEPT ![n] = TurnStatus(end)]
          /\ watch' = [watch EXCEPT ![n] = "done"]
      BY <1>1, <1>3, ConvShape DEF Finalize
    <2>3. Message("assistant", n) \in Messages
          /\ \A k : /\ Message("assistant", n) # Message("user", k)
                    /\ k # n => Message("assistant", n) # Message("assistant", k)
      BY DEF Message, Messages
    <2>4. TypeOK'
      <3>1. conv'.messages \in Seq(Messages)
        BY <1>1, <2>2, <2>3, ConvShape
      <3>2. /\ conv'.session \in 0 .. MaxPosts /\ conv'.status \in Statuses
            /\ conv'.turns \in [Turns -> {"none", "running", "completed", "errored", "cancelled"}]
        BY <1>1, <2>1, <2>2, ConvShape DEF Statuses
      <3>3. conv' = [session |-> conv'.session, status |-> conv'.status, turns |-> conv'.turns,
                     messages |-> conv'.messages]
        BY <1>1, <1>3, ConvShape DEF Finalize
      <3>4. conv' \in [session : 0 .. MaxPosts, status : Statuses,
                       turns : [Turns -> {"none", "running", "completed", "errored", "cancelled"}],
                       messages : Seq(Messages)]
        BY <3>1, <3>2, <3>3
      <3>5. QED
        BY <1>1, <2>2, <3>4 DEF TypeOK, Messages
    <2>5. ASSUME NEW k \in Turns PROVE Fine(k)'
      <3>1. MessagesOf("user", k)' = MessagesOf("user", k)
        BY <1>1, <2>2, <2>3, MessageStored
      <3>2. CASE k # n
        <4>1. MessagesOf("assistant", k)' = MessagesOf("assistant", k)
          BY <1>1, <2>2, <2>3, <3>2, MessageStored
        <4>2. watch'[k] = watch[k] /\ conv'.turns[k] = conv.turns[k]
          BY <1>1, <2>2, <3>2, ConvShape DEF TypeOK
        <4>3. QED
          BY <1>1, <3>1, <4>1, <4>2 DEF Fine, TurnOK
      <3>3. CASE k = n
        <4>1. /\ MessagesOf("assistant", n) = {} /\ MessagesOf("user", n) # {}
              /\ posts[n] \notin {"none", "creating"}
          BY <1>1, <1>3 DEF Fine, TurnOK
        <4>2. MessagesOf("assistant", n)' = {Len(conv.messages) + 1}
          BY <1>1, <2>2, <2>3, <4>1, MessageStored
        <4>3. \A j \in MessagesOf("user", n) : j < Len(conv.messages) + 1
          BY <1>1, <2>2, <2>3, MessageStored
        <4>4. Cardinality({Len(conv.messages) + 1}) <= 1
          BY AtMostOne
        <4>5. watch'[n] = "done"
          BY <1>1, <2>2 DEF TypeOK
        <4>6. QED
          BY <3>1, <3>3, <4>1, <4>2, <4>3, <4>4, <4>5 DEF Fine, TurnOK
      <3>4. QED
        BY <3>2, <3>3
    <2>6. RunningHasSession' /\ (conv.status = "running" => conv.session \in Turns)'
      BY <1>1, <2>1, <2>2 DEF RunningHasSession
    <2>7. QED
      BY <2>4, <2>5, <2>6
      DEF TurnIInv, TurnInv, OneReply, WatchedIsStored, WatchedIsUnanswered, Fine, TurnOK
  <1>4. QED
    BY <1>2, <1>3

\* A restart forgets every handler and watcher, and the conversation no longer runs.
LEMMA RestartInv ==
    ASSUME TurnIInv, Restart
    PROVE  TurnIInv'
  <1>1. TypeOK /\ \A k \in Turns : Fine(k)
    BY IInvByTurn
  <1>2. /\ conv'.messages = conv.messages /\ conv'.session = conv.session
        /\ conv'.status = Recover(conv.status) /\ conv'.turns = conv.turns
    BY <1>1, ConvShape DEF Restart
  <1>3. Recover(conv.status) \in Statuses \ {"running"}
    BY <1>1, ConvShape DEF Recover, Statuses
  <1>4. TypeOK'
    BY <1>1, <1>3, ConvShape, TurnAssumption DEF TypeOK, Restart
  <1>5. ASSUME NEW k \in Turns PROVE Fine(k)'
    <2>1. MessagesOf("user", k)' = MessagesOf("user", k)
          /\ MessagesOf("assistant", k)' = MessagesOf("assistant", k)
      BY <1>2, MessagesKept
    <2>2. watch'[k] = "none" /\ posts'[k] \in {posts[k], "lost"}
          /\ (posts'[k] = "creating" => posts[k] = "creating")
      BY <1>1 DEF Restart
    <2>3. QED
      BY <1>1, <1>2, <2>1, <2>2 DEF Fine, TurnOK
  <1>6. RunningHasSession' /\ (conv.status = "running" => conv.session \in Turns)'
    BY <1>2, <1>3 DEF RunningHasSession
  <1>7. QED
    BY <1>4, <1>5, <1>6
      DEF TurnIInv, TurnInv, OneReply, WatchedIsStored, WatchedIsUnanswered, Fine, TurnOK

\* The stream, the backstop and the runtime all end a turn through finalize.
LEMMA EndInv ==
    ASSUME TurnIInv, NEW n \in Turns,
           \/ StreamEmits(n) \/ Backstop(n)
           \/ \E end \in {"completed", "errored"} : RuntimeEnds(n, end)
    PROVE  TurnIInv'
  <1>1. TypeOK
    BY IInvByTurn
  <1>2. CASE StreamEmits(n)
    BY <1>1, <1>2, FinalizeInv DEF StreamEmits, TypeOK
  <1>3. CASE Backstop(n)
    BY <1>1, <1>3, FinalizeInv DEF Backstop, TypeOK
  <1>4. CASE \E end \in {"completed", "errored"} : RuntimeEnds(n, end)
    <2>1. PICK end \in {"completed", "errored"} : RuntimeEnds(n, end)
      BY <1>4
    <2>2. EndOf(n, end) \in {"absent"} \union Ends
          /\ (EndOf(n, end) = "absent" => sess[n].view = "absent")
      BY <1>1 DEF EndOf, TypeOK, Ends
    <2>3. sess' = [sess EXCEPT ![n] = [view |-> EndOf(n, end), turn |-> "over"]]
      BY <2>1 DEF RuntimeEnds
    <2>4. sess' \in [Turns -> [view : {"absent", "none"} \union Ends,
                               turn : {"none", "running", "over"}]]
      BY <1>1, <2>2, <2>3 DEF TypeOK
    <2>5. \A k \in Turns : sess'[k].view = "absent" => sess[k].view = "absent"
      BY <1>1, <2>2, <2>3 DEF TypeOK
    <2>6. QED
      BY <2>1, <2>4, <2>5, FinalizeInv DEF RuntimeEnds
  <1>5. QED
    BY <1>2, <1>3, <1>4

LEMMA TurnInitInv == Init => TurnIInv
  <1> SUFFICES ASSUME Init PROVE TurnIInv
    OBVIOUS
  <1>1. TypeOK
    BY TurnAssumption DEF Init, TypeOK, Statuses, Turns
  <1>2. ASSUME NEW role, NEW n PROVE MessagesOf(role, n) = {}
    BY DEF Init, MessagesOf
  <1>3. QED
    BY <1>1, <1>2, AtMostOne
       DEF Init, TurnIInv, TurnInv, RunningHasSession, OneReply, WatchedIsStored, WatchedIsUnanswered

LEMMA TurnStepInv == TurnIInv /\ [Next]_vars => TurnIInv'
  <1> SUFFICES ASSUME TurnIInv, [Next]_vars PROVE TurnIInv'
    OBVIOUS
  <1>1. CASE UNCHANGED vars
    <2>1. /\ conv' = conv /\ posts' = posts /\ sess' = sess /\ watch' = watch
          /\ UNCHANGED vars
      BY <1>1 DEF vars
    <2>2. \A role, n : MessagesOf(role, n)' = MessagesOf(role, n)
      BY <2>1 DEF MessagesOf
    <2>3. TypeOK'
      BY <2>1 DEF vars, TurnIInv, TurnInv, TypeOK
    <2>4. RunningHasSession' /\ (conv.status = "running" => conv.session \in Turns)'
      BY <2>1 DEF TurnIInv, TurnInv, RunningHasSession
    <2>5. OneReply'
      BY <2>1, <2>2 DEF TurnIInv, TurnInv, OneReply
    <2>6. WatchedIsStored' /\ WatchedIsUnanswered'
      BY <2>1, <2>2 DEF TurnIInv, WatchedIsStored, WatchedIsUnanswered
    <2>7. QED
      BY <2>3, <2>4, <2>5, <2>6 DEF TurnIInv, TurnInv
  <1>2. CASE Restart
    BY <1>2, RestartInv
  <1>3. ASSUME NEW n \in Turns,
               \/ Post(n) \/ CreateFails(n) \/ PromptArrives(n) \/ SendReturns(n)
               \/ \E end \in {"denied", "cancelled"} : Interrupt(n, end)
        PROVE  TurnIInv'
    BY <1>3, QuietSteps
  <1>4. ASSUME NEW n \in Turns, CreateReturns(n) PROVE TurnIInv'
    BY <1>4, CreateReturnsInv
  <1>5. ASSUME NEW n \in Turns, SendFails(n) PROVE TurnIInv'
    BY <1>5, SendFailsInv
  <1>6. ASSUME NEW n \in Turns,
               \/ StreamEmits(n) \/ Backstop(n)
               \/ \E end \in {"completed", "errored"} : RuntimeEnds(n, end)
        PROVE  TurnIInv'
    BY <1>6, EndInv
  <1>7. QED
    BY <1>1, <1>2, <1>3, <1>4, <1>5, <1>6 DEF Next

-----------------------------------------------------------------------------
(* The theorems.                                                            *)

\* The inductive invariant holds of every behaviour.
THEOREM TurnSafety == Spec => []TurnIInv
  BY TurnInitInv, TurnStepInv, PTL DEF Spec

\* For any number of overlapping POSTs and of restarts: a turn has at most one reply,
\* after its message; a completed turn has one; and a conversation stored as running has
\* a session this process knows of.
THEOREM TurnInvAlways == Spec => []TurnInv
  <1>1. TurnIInv => TurnInv
    BY DEF TurnIInv
  <1>2. QED
    BY <1>1, TurnSafety, PTL

\* Where a reply is stored its turn was watched.
LEMMA ReplyIsWatched ==
    ASSUME TurnIInv, [Next]_vars, NEW n \in Turns,
           MessagesOf("assistant", n)' # MessagesOf("assistant", n)
    PROVE  watch[n] = "armed"
  <1>1. TypeOK
    BY IInvByTurn
  <1>2. SUFFICES ASSUME watch[n] # "armed" PROVE FALSE
    OBVIOUS
  <1>3. conv'.messages # conv.messages
    BY MessagesKept
  <1>4. PICK k \in Turns : \/ conv'.messages = Append(conv.messages, Message("user", k))
                           \/ /\ watch[k] = "armed"
                              /\ conv'.messages = Append(conv.messages, Message("assistant", k))
    <2>1. CASE Restart \/ UNCHANGED vars
      BY <1>1, <1>3, <2>1, ConvShape DEF Restart, vars
    <2>2. ASSUME NEW k \in Turns,
                 \/ Post(k) \/ CreateFails(k) \/ PromptArrives(k) \/ SendReturns(k) \/ SendFails(k)
                 \/ \E end \in {"denied", "cancelled"} : Interrupt(k, end)
          PROVE  FALSE
      BY <1>1, <1>3, <2>2, ConvShape
         DEF Post, CreateFails, PromptArrives, SendReturns, SendFails, Interrupt
    <2>3. ASSUME NEW k \in Turns, CreateReturns(k)
          PROVE  conv'.messages = Append(conv.messages, Message("user", k))
      BY <1>1, <2>3, ConvShape DEF CreateReturns
    <2>4. ASSUME NEW k \in Turns, NEW end, Finalize(k, end)
          PROVE  watch[k] = "armed" /\ conv'.messages = Append(conv.messages, Message("assistant", k))
      BY <1>1, <1>3, <2>4, ConvShape DEF Finalize
    <2>5. QED
      BY <2>1, <2>2, <2>3, <2>4 DEF Next, StreamEmits, Backstop, RuntimeEnds
  <1>5. /\ Message("user", k) \in Messages /\ Message("assistant", k) \in Messages
        /\ Message("user", k) # Message("assistant", n)
        /\ k # n => Message("assistant", k) # Message("assistant", n)
    BY DEF Message, Messages
  <1>6. CASE conv'.messages = Append(conv.messages, Message("user", k))
    BY <1>1, <1>5, <1>6, MessageStored
  <1>7. CASE watch[k] = "armed" /\ conv'.messages = Append(conv.messages, Message("assistant", k))
    BY <1>1, <1>2, <1>5, <1>7, MessageStored
  <1>8. QED
    BY <1>4, <1>6, <1>7

\* A turn that was answered with an error never gets a reply, however late its session
\* ends and whatever other turns do.
THEOREM NoPhantomReplyAlways == Spec => NoPhantomReply
  <1>1. ASSUME TurnIInv, [Next]_vars
        PROVE  [\A n \in Turns : posts[n] = "failed" =>
                   MessagesOf("assistant", n)' = MessagesOf("assistant", n)]_vars
    <2>1. ASSUME NEW n \in Turns, posts[n] = "failed"
          PROVE  MessagesOf("assistant", n)' = MessagesOf("assistant", n)
      <3>1. watch[n] # "armed"
        BY <1>1, <2>1 DEF TurnIInv, WatchedIsStored
      <3>2. QED
        BY <1>1, <3>1, ReplyIsWatched
    <2>2. QED
      BY <2>1
  <1>2. QED
    BY <1>1, TurnSafety, PTL DEF Spec, NoPhantomReply

\* The terminal or the backstop of a turn the conversation is no longer linked to leaves
\* its status alone, however many turns overlap.
THEOREM StaleEndKeepsStatusAlways == Spec => StaleEndKeepsStatus
  <1>1. ASSUME TurnIInv, [Next]_vars
        PROVE  [\A n \in Turns : StaleChange(n) /\ posts'[n] = posts[n] =>
                   conv'.status = conv.status]_vars
    <2>1. TypeOK
      BY <1>1, IInvByTurn
    <2> SUFFICES ASSUME NEW n \in Turns, StaleChange(n), posts'[n] = posts[n]
                 PROVE  conv'.status = conv.status
      OBVIOUS
    <2>2. /\ conv.session # n /\ conv'.session = conv.session
          /\ conv'.turns # conv.turns /\ conv'.turns[n] # conv.turns[n]
      BY DEF StaleChange
    <2>3. CASE Restart \/ UNCHANGED vars
      BY <2>1, <2>2, <2>3, ConvShape DEF Restart, vars
    <2>4. ASSUME NEW k \in Turns,
                 \/ Post(k) \/ CreateFails(k) \/ PromptArrives(k) \/ SendReturns(k)
                 \/ \E end \in {"denied", "cancelled"} : Interrupt(k, end)
          PROVE  FALSE
      BY <2>1, <2>2, <2>4, ConvShape DEF Post, CreateFails, PromptArrives, SendReturns, Interrupt
    <2>5. ASSUME NEW k \in Turns, CreateReturns(k) \/ SendFails(k)
          PROVE  FALSE
      <3>1. k # n
        BY <2>1, <2>5 DEF TypeOK, CreateReturns, SendFails
      <3>2. conv'.turns = [conv.turns EXCEPT ![k] = "running"]
            \/ conv'.turns = [conv.turns EXCEPT ![k] = "errored"]
        <4>1. CASE CreateReturns(k)
          BY <2>1, <4>1, ConvShape DEF CreateReturns
        <4>2. CASE SendFails(k)
          BY <2>1, <4>2, ConvShape DEF SendFails
        <4>3. QED
          BY <2>5, <4>1, <4>2
      <3>3. conv.turns \in [Turns -> {"none", "running", "completed", "errored", "cancelled"}]
        BY <2>1, ConvShape
      <3>4. QED
        BY <2>2, <3>1, <3>2, <3>3
    <2>6. ASSUME NEW k \in Turns, NEW end, Finalize(k, end)
          PROVE  conv'.status = conv.status
      <3>1. k = n
        BY <2>1, <2>2, <2>6, ConvShape DEF Finalize
      <3>2. QED
        BY <2>1, <2>2, <2>6, <3>1, ConvShape DEF Finalize
    <2>7. QED
      BY <1>1, <2>3, <2>4, <2>5, <2>6 DEF Next, StreamEmits, Backstop, RuntimeEnds
  <1>2. QED
    BY <1>1, TurnSafety, PTL DEF Spec, StaleEndKeepsStatus

=============================================================================
