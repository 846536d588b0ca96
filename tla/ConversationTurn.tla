-------------------------- MODULE ConversationTurn --------------------------
(***************************************************************************)
(* Turns of one stored conversation, driven by a remote client             *)
(* (service/src/conversation/turn-router.ts).  A POST checks that no turn  *)
(* is live, opens a session, stores the message and links the session,     *)
(* watches the session's stream, and sends the prompt; when the session    *)
(* ends the watcher stores the reply.  The store (db/sqlite-conversation-  *)
(* store.ts) is synchronous, so the handler gives way to other events only *)
(* at the calls of the runtime: opening the session and sending the prompt.*)
(*                                                                         *)
(* The n-th POST opens session n.                                          *)
(***************************************************************************)
EXTENDS Naturals, Sequences, FiniteSets

CONSTANTS
    MaxPosts,       \* bound on the POSTs
    MaxRestarts     \* bound on the restarts of the service

ASSUME TurnAssumption == {MaxPosts, MaxRestarts} \subseteq Nat

VARIABLES
    conv,       \* the stored conversation
    posts,      \* where the handler of each POST is, or how it answered
    sess,       \* the service's view of each session, and its turn in the runtime
    watch,      \* the terminal watcher of each turn
    restarts    \* the restarts so far

vars == <<conv, posts, sess, watch, restarts>>

Turns == 1 .. MaxPosts
Ends == {"completed", "errored", "cancelled", "denied"}
Statuses == {"draft", "running", "completed", "errored", "cancelled", "interrupted"}

Message(role, n) == [role |-> role, turn |-> n]

TypeOK ==
    /\ conv \in [session : 0 .. MaxPosts, status : Statuses,
                 turns : [Turns -> {"none", "running", "completed", "errored", "cancelled"}],
                 messages : Seq([role : {"user", "assistant"}, turn : Turns])]
    /\ posts \in [Turns -> {"none", "creating", "sending", "accepted", "failed", "rejected", "lost"}]
    /\ sess \in [Turns -> [view : {"absent", "none"} \union Ends, turn : {"none", "running", "over"}]]
    /\ watch \in [Turns -> {"none", "armed", "done"}]
    /\ restarts \in 0 .. MaxRestarts

Init ==
    /\ conv = [session |-> 0, status |-> "draft", turns |-> [n \in Turns |-> "none"],
               messages |-> <<>>]
    /\ posts = [n \in Turns |-> "none"]
    /\ sess = [n \in Turns |-> [view |-> "absent", turn |-> "none"]]
    /\ watch = [n \in Turns |-> "none"]
    /\ restarts = 0

-----------------------------------------------------------------------------
(* The handler of POST /v1/conversations/{id}/turn.                         *)

\* The session the conversation is linked to has not ended.
InProgress == conv.session # 0 /\ sess[conv.session].view = "none"

\* Up to the await on the new session; an overlapping turn is answered with 409.
Post(n) ==
    /\ posts[n] = "none"
    /\ \A k \in 1 .. n - 1 : posts[k] # "none"
    /\ posts' = [posts EXCEPT ![n] = IF InProgress THEN "rejected" ELSE "creating"]
    /\ UNCHANGED <<conv, sess, watch, restarts>>

CreateFails(n) ==
    /\ posts[n] = "creating"
    /\ posts' = [posts EXCEPT ![n] = "failed"]
    /\ UNCHANGED <<conv, sess, watch, restarts>>

\* Mutant: the stream of the turn is not watched.
CreateReturnsUnwatched(n) ==
    /\ posts[n] = "creating"
    /\ sess' = [sess EXCEPT ![n].view = "none"]
    /\ conv' = [conv EXCEPT !.messages = Append(@, Message("user", n)),
                            !.session = n, !.status = "running", !.turns[n] = "running"]
    /\ posts' = [posts EXCEPT ![n] = "sending"]
    /\ UNCHANGED <<watch, restarts>>

\* The session is there: the message is stored, the turn linked and registered, its
\* stream watched, and the prompt sent.
CreateReturns(n) ==
    /\ posts[n] = "creating"
    /\ sess' = [sess EXCEPT ![n].view = "none"]
    /\ conv' = [conv EXCEPT !.messages = Append(@, Message("user", n)),
                            !.session = n, !.status = "running", !.turns[n] = "running"]
    /\ watch' = [watch EXCEPT ![n] = "armed"]
    /\ posts' = [posts EXCEPT ![n] = "sending"]
    /\ UNCHANGED restarts

\* The prompt reaches the runtime, which starts the turn.
PromptArrives(n) ==
    /\ posts[n] = "sending"
    /\ sess[n].turn = "none"
    /\ sess' = [sess EXCEPT ![n].turn = "running"]
    /\ UNCHANGED <<conv, posts, watch, restarts>>

SendReturns(n) ==
    /\ posts[n] = "sending"
    /\ sess[n].turn # "none"
    /\ posts' = [posts EXCEPT ![n] = "accepted"]
    /\ UNCHANGED <<conv, sess, watch, restarts>>

\* Mutant: the watcher of a prompt that was not sent stays.
SendFailsWatched(n) ==
    /\ posts[n] = "sending"
    /\ conv' = [conv EXCEPT !.status = "errored", !.turns[n] = "errored"]
    /\ posts' = [posts EXCEPT ![n] = "failed"]
    /\ UNCHANGED <<sess, watch, restarts>>

\* The call fails or times out, whether or not the prompt arrived: the watcher is
\* cancelled and the turn marked errored.
SendFails(n) ==
    /\ posts[n] = "sending"
    /\ watch' = [watch EXCEPT ![n] = "done"]
    /\ conv' = [conv EXCEPT !.status = "errored", !.turns[n] = "errored"]
    /\ posts' = [posts EXCEPT ![n] = "failed"]
    /\ UNCHANGED <<sess, restarts>>

-----------------------------------------------------------------------------
(* bindTerminalPersistence.                                                 *)

\* turnStatusFor
TurnStatus(end) ==
    CASE end = "completed" -> "completed"
      [] end \in {"cancelled", "denied"} -> "cancelled"
      [] OTHER -> "errored"

\* Mutant: the end of any turn sets the status of the conversation.
FinalizeAlways(n, end) ==
    IF watch[n] = "armed"
    THEN /\ watch' = [watch EXCEPT ![n] = "done"]
         /\ conv' = [conv EXCEPT !.messages = Append(@, Message("assistant", n)),
                                 !.turns[n] = TurnStatus(end),
                                 !.status = TurnStatus(end)]
    ELSE UNCHANGED <<watch, conv>>

\* Mutant: the watcher may run again.
FinalizeAgain(n, end) ==
    IF watch[n] = "armed"
    THEN /\ watch' = watch
         /\ conv' = [conv EXCEPT !.messages = Append(@, Message("assistant", n)),
                                 !.turns[n] = TurnStatus(end),
                                 !.status = IF conv.session = n THEN TurnStatus(end) ELSE @]
    ELSE UNCHANGED <<watch, conv>>

\* finalize, once: the reply is stored and the turn completed; the status of the
\* conversation changes only if the turn is still the one it is linked to.
Finalize(n, end) ==
    IF watch[n] = "armed"
    THEN /\ watch' = [watch EXCEPT ![n] = "done"]
         /\ conv' = [conv EXCEPT !.messages = Append(@, Message("assistant", n)),
                                 !.turns[n] = TurnStatus(end),
                                 !.status = IF conv.session = n THEN TurnStatus(end) ELSE @]
    ELSE UNCHANGED <<watch, conv>>

\* The view after the runtime ended the turn: the first terminal wins.
EndOf(n, end) == IF sess[n].view = "none" THEN end ELSE sess[n].view

\* The runtime ends the turn; the stream emits it, and the watcher looks at the view.
RuntimeEnds(n, end) ==
    /\ sess[n].turn = "running"
    /\ sess' = [sess EXCEPT ![n] = [view |-> EndOf(n, end), turn |-> "over"]]
    /\ Finalize(n, EndOf(n, end))
    /\ UNCHANGED <<posts, restarts>>

\* The user cancels the session, or denies a permission of it: the view ends, the
\* stream does not say so.
Interrupt(n, end) ==
    /\ sess[n].turn = "running"
    /\ sess[n].view = "none"
    /\ sess' = [sess EXCEPT ![n].view = end]
    /\ UNCHANGED <<conv, posts, watch, restarts>>

\* The next event of a session whose view has ended.
StreamEmits(n) ==
    /\ watch[n] = "armed"
    /\ sess[n].turn = "running"
    /\ sess[n].view # "none"
    /\ Finalize(n, sess[n].view)
    /\ UNCHANGED <<posts, sess, restarts>>

\* TURN_PERSIST_TTL_MS is over.
Backstop(n) ==
    /\ watch[n] = "armed"
    /\ Finalize(n, EndOf(n, "errored"))
    /\ UNCHANGED <<posts, sess, restarts>>

-----------------------------------------------------------------------------

\* recoverStaleRunning
Recover(status) == IF status = "running" THEN "interrupted" ELSE status

\* The service and its runtime child stop and start again.
Restart ==
    /\ restarts < MaxRestarts
    /\ restarts' = restarts + 1
    /\ conv' = [conv EXCEPT !.status = Recover(@)]
    /\ posts' = [n \in Turns |-> IF posts[n] \in {"creating", "sending"} THEN "lost" ELSE posts[n]]
    /\ sess' = [n \in Turns |-> [view |-> "absent",
                                 turn |-> IF sess[n].turn = "running" THEN "over" ELSE sess[n].turn]]
    /\ watch' = [n \in Turns |-> "none"]

Next ==
    \/ \E n \in Turns :
          \/ Post(n)
          \/ CreateFails(n)
          \/ CreateReturns(n)
          \/ PromptArrives(n)
          \/ SendReturns(n)
          \/ SendFails(n)
          \/ StreamEmits(n)
          \/ Backstop(n)
          \/ \E end \in {"completed", "errored"} : RuntimeEnds(n, end)
          \/ \E end \in {"denied", "cancelled"} : Interrupt(n, end)
    \/ Restart

Spec == Init /\ [][Next]_vars

\* Calls of the runtime settle and the backstop timer fires.  The runtime may never
\* end a turn.
Fairness ==
    \A n \in Turns :
        /\ WF_vars(CreateFails(n) \/ CreateReturns(n))
        /\ WF_vars(SendReturns(n) \/ SendFails(n))
        /\ WF_vars(Backstop(n))

LiveSpec == Spec /\ Fairness

-----------------------------------------------------------------------------
(* Properties.                                                              *)

MessagesOf(role, n) == {i \in DOMAIN conv.messages : conv.messages[i] = Message(role, n)}

\* The history tells the truth: a turn has at most one reply, after its message, and
\* a turn recorded as completed has one, although the stream, the backstop and a
\* failed send can each end the turn.
OneReply ==
    \A n \in Turns :
        /\ Cardinality(MessagesOf("assistant", n)) <= 1
        /\ \A i \in MessagesOf("assistant", n) : \E j \in MessagesOf("user", n) : j < i
        /\ conv.turns[n] = "completed" => MessagesOf("assistant", n) # {}

\* No phantom reply: after a turn was answered with an error no reply is stored for it.
NoPhantomReply ==
    [][\A n \in Turns : posts[n] = "failed" =>
          MessagesOf("assistant", n)' = MessagesOf("assistant", n)]_vars

\* The turn changes its record, and is not the one the conversation is linked to.
StaleChange(n) ==
    conv.session # n /\ conv'.session = conv.session /\ conv'.turns[n] # conv.turns[n]

\* turn-router.ts: "a stale turn's terminal must not clobber a live turn's running
\* status": the terminal or the backstop of a turn the conversation is no longer
\* linked to leaves its status alone, though turns may overlap.
StaleEndKeepsStatus ==
    [][\A n \in Turns : StaleChange(n) /\ posts'[n] = posts[n] => conv'.status = conv.status]_vars

\* The same of every end of a turn, the failed send of its own POST included.
StaleTurnKeepsStatus ==
    [][\A n \in Turns : StaleChange(n) => conv'.status = conv.status]_vars

\* turn-router.ts: "Reject an overlapping turn": one live session at most.
OneLiveTurn == Cardinality({n \in Turns : sess[n].view = "none"}) <= 1

\* A conversation that says it is running has a session this process knows of, also
\* after a restart.
RunningHasSession == conv.status = "running" => sess[conv.session].view # "absent"

\* The stored conversation tells the truth about its turns, one reply each, and agrees
\* with the service's memory on whether one is running, also after a restart
\* (recoverStaleRunning).
TurnInv == TypeOK /\ RunningHasSession /\ OneReply

\* A turn whose handler has not stored anything is watched by nobody and has no reply;
\* one that was answered with an error is watched by nobody any more.
WatchedIsStored ==
    \A n \in Turns :
        /\ posts[n] \in {"none", "creating"} =>
              watch[n] = "none" /\ MessagesOf("assistant", n) = {}
        /\ posts[n] = "failed" => watch[n] # "armed"

\* A watched turn has its message and no reply yet.
WatchedIsUnanswered ==
    \A n \in Turns :
        watch[n] = "armed" =>
            MessagesOf("user", n) # {} /\ MessagesOf("assistant", n) = {}

\* The inductive invariant: that there is one reply needs to know that a watcher stores
\* it once and that none is armed for a turn that has a reply; that a running
\* conversation has a session, that it is linked to one.
TurnIInv ==
    /\ TurnInv
    /\ WatchedIsStored
    /\ WatchedIsUnanswered
    /\ conv.status = "running" => conv.session \in Turns

\* A turn that was registered is recorded as ended, unless the service restarts, even
\* if the runtime never ends it.
TurnIsRecorded ==
    \A n \in Turns : conv.turns[n] = "running" ~> (conv.turns[n] # "running" \/ restarts > 0)

\* turn-router.ts rejects a turn only while "this conversation already has a live
\* (non-terminal) runtime session": one whose prompt was never sent does not count.
FailedTurnIsOver ==
    \A n \in Turns :
        InProgress /\ conv.session = n /\ posts[n] = "failed" => sess[n].turn # "none"

=============================================================================
